---- MODULE Spec2Model ----
(***************************************************************************)
(* A model of the 3MF transform pipeline of u1-slicer-bridge:              *)
(*   - transform_3mf.py       (build-item / assemble-item transform deltas)*)
(*   - multi_plate_parser.py  (plate detection, plate extraction)          *)
(*   - profile_embedder.py    (settings merge, archive copy)               *)
(*   - routes_slice.py        (bounds precheck, origin / placement frame)  *)
(*                                                                         *)
(* Numbers.  Python floats are modelled as fixed-point integers counted in *)
(* ticks of a third of 1e-6 (mm, or units of a matrix coefficient): finer  *)
(* than the six decimals _format_3mf_transform writes, so that formatting  *)
(* is a real rounding step, and without rounding ties.  Rotations are      *)
(* multiples of 90 degrees, for which cos and sin are -1, 0 or 1.          *)
(***************************************************************************)
EXTENDS Integers, Sequences, FiniteSets, TLC

VARIABLES
    src_3mf,       \* the source archive: a sequence of ZIP entries
    output_3mf,    \* the output archive; <<>> while it has not been written
    call,          \* the operation that ran last, with its arguments
    outcome,       \* "none" | "ok" | the exception raised
    profiles,      \* the printer / process / filament profiles on disk
    invoked,       \* the external steps run so far (mesh rebuild, slicer)
    scene,         \* what the parsers report about the file being placed
    workdir        \* the temporary files that exist beside the archives

archiveVars == <<src_3mf, output_3mf, call, outcome>>

vars == <<src_3mf, output_3mf, call, outcome, profiles, invoked, scene, workdir>>

NoProfiles == [loaded |-> FALSE]
NoScene == [parsed |-> FALSE]

-----------------------------------------------------------------------------
(* Fixed-point numbers *)

ONE == 3 * 1000 * 1000             \* 1.0 in ticks
MM(n) == n * ONE                   \* n millimetres in ticks

Abs(x) == IF x < 0 THEN -x ELSE x

Min2(a, b) == IF a <= b THEN a ELSE b
Max2(a, b) == IF a >= b THEN a ELSE b

\* x * y for fixed-point x, y.  One factor is always a whole number here
\* (rotation coefficients are -1, 0, 1), so the product is exact.
Mul(x, y) ==
    IF y % ONE = 0 THEN x * (y \div ONE)
    ELSE IF x % ONE = 0 THEN (x \div ONE) * y
    ELSE (x * y) \div ONE

\* f"{v:.6f}": the nearest multiple of 1e-6, i.e. of 3 ticks.
Round6(v) ==
    IF v >= 0 THEN ((v + 1) \div 3) * 3
    ELSE -(((-v) + 1) \div 3) * 3

-----------------------------------------------------------------------------
(* transform_3mf.py: the affine kernel *)

IDENTITY_3MF == <<ONE, 0, 0,  0, ONE, 0,  0, 0, ONE,  0, 0, 0>>

\* A transform attribute is a sequence of whitespace-separated tokens; <<>>
\* is an absent or empty attribute.  A token is the number float() reads from
\* it, or NonNumeric when float() raises ValueError.
NonNumeric == -2147483647

AllNumeric(transform_str) ==
    \A i \in DOMAIN transform_str : transform_str[i] # NonNumeric

_parse_3mf_transform(transform_str) ==
    IF transform_str = <<>> THEN IDENTITY_3MF
    ELSE IF ~AllNumeric(transform_str) THEN IDENTITY_3MF
    ELSE IF Len(transform_str) = 12 THEN transform_str
    ELSE IF Len(transform_str) = 16 THEN
        << transform_str[1], transform_str[2], transform_str[3],
           transform_str[5], transform_str[6], transform_str[7],
           transform_str[9], transform_str[10], transform_str[11],
           transform_str[13], transform_str[14], transform_str[15] >>
    ELSE IDENTITY_3MF

\* fmt(v): values below 1e-10 become 0, then six decimals, trailing zeros
\* trimmed (the trimming does not change the number written).
Fmt_NoRounding(v) == v
fmt(v) == Round6(v)

_format_3mf_transform(values) == [i \in 1..12 |-> fmt(values[i])]

\* a o b (apply b, then a), 3x4 row-major [3x3 | tx ty tz].
\* la[r][k] is a[3*r + k + 1], ta[r] is a[10 + r]  (r, k in 0..2).
ComposeSwapped(a, b) ==
    [i \in 1..12 |->
        IF i <= 9 THEN
            LET r == (i - 1) \div 3
                c == (i - 1) % 3
            IN  Mul(b[3*r + 1], a[c + 1]) + Mul(b[3*r + 2], a[c + 4])
                  + Mul(b[3*r + 3], a[c + 7])
        ELSE
            LET r == i - 10
            IN  Mul(b[3*r + 1], a[10]) + Mul(b[3*r + 2], a[11])
                  + Mul(b[3*r + 3], a[12]) + b[10 + r] ]

_compose_affine(a, b) ==
    [i \in 1..12 |->
        IF i <= 9 THEN
            LET r == (i - 1) \div 3
                c == (i - 1) % 3
            IN  Mul(a[3*r + 1], b[c + 1]) + Mul(a[3*r + 2], b[c + 4])
                  + Mul(a[3*r + 3], b[c + 7])
        ELSE
            LET r == i - 10
            IN  Mul(a[3*r + 1], b[10]) + Mul(a[3*r + 2], b[11])
                  + Mul(a[3*r + 3], b[12]) + a[10 + r] ]

\* cos and sin of a multiple of 90 degrees.
Cos90(deg) == CASE deg % 360 = 0   -> ONE
                [] deg % 360 = 180 -> -ONE
                [] OTHER           -> 0
Sin90(deg) == CASE deg % 360 = 90  -> ONE
                [] deg % 360 = 270 -> -ONE
                [] OTHER           -> 0

_rotation_z_3mf(degrees) ==
    << Cos90(degrees), -Sin90(degrees), 0,
       Sin90(degrees),  Cos90(degrees), 0,
       0, 0, ONE,
       0, 0, 0 >>

-----------------------------------------------------------------------------
(* The 3MF archive *)

NoId == "None"                       \* an absent attribute / a None value

MODEL_NAME == "3D/3dmodel.model"
MODEL_SETTINGS_NAME == "Metadata/model_settings.config"
PROJECT_SETTINGS_NAME == "Metadata/project_settings.config"

\* A ZIP entry: filename, compress_type ("stored" | "deflated") and body.
\*   3D/3dmodel.model               [kind |-> "model", ser, items, paint_color]
\*       ser is "source" while the XML text is the source's text (patched in
\*       place or not) and "etree" once it was re-serialised by ElementTree;
\*       an item is [objectid, transform, printable] (printable "none":
\*       no attribute).
\*   Metadata/model_settings.config [kind |-> "model_settings", ser, assemble,
\*                                   plater_name, extruder]
\*       an assemble_item is [object_id, transform]; plater_name is the value
\*       of the plater_name metadata ("" when empty or absent), extruder the
\*       values of the extruder metadata in document order.
\*   Metadata/project_settings.config [kind |-> "project_settings", config]
\*   any other member               [kind |-> "blob", id]
Entry(name, method, body) ==
    [filename |-> name, compress_type |-> method, body |-> body]

ModelBody(ser, items) ==
    [kind |-> "model", ser |-> ser, items |-> items, paint_color |-> FALSE]
SettingsBody(ser, assemble) ==
    [kind |-> "model_settings", ser |-> ser, assemble |-> assemble,
     plater_name |-> "", extruder |-> <<>>]
Blob(id) == [kind |-> "blob", id |-> id]

namelist(zf) == {zf[i].filename : i \in DOMAIN zf}

\* zf.read(name): entry names are distinct in the archives considered.
read(zf, name) == (CHOOSE i \in DOMAIN zf : zf[i].filename = name)

BuildItems(zf) ==
    IF MODEL_NAME \in namelist(zf) THEN zf[read(zf, MODEL_NAME)].body.items
    ELSE <<>>

AssembleItems(zf) ==
    IF MODEL_SETTINGS_NAME \in namelist(zf)
    THEN zf[read(zf, MODEL_SETTINGS_NAME)].body.assemble
    ELSE <<>>

-----------------------------------------------------------------------------
(* transform_3mf.py: apply_object_transforms_to_3mf *)

\* One request entry:
\*   [build_item_index, object_id, translate_x_mm, translate_y_mm, rotate_z_deg]

\* Lines 124-143: the loop that fills `normalized` raises on an index < 1
\* and on an index seen before.
IndexBelowOne(object_transforms) ==
    \E i \in DOMAIN object_transforms :
        object_transforms[i].build_item_index < 1

NoDuplicateCheck(object_transforms) == FALSE
DuplicateIndex(object_transforms) ==
    \E i, j \in DOMAIN object_transforms :
        /\ i < j
        /\ object_transforms[i].build_item_index
             = object_transforms[j].build_item_index

\* `normalized`: build_item_index -> entry (defined when no index repeats;
\* with a repeat, which the mutants allow, the later entry wins as in a dict).
normalized_of(object_transforms) ==
    [idx \in {object_transforms[i].build_item_index : i \in DOMAIN object_transforms}
        |-> LET last == CHOOSE i \in DOMAIN object_transforms :
                          /\ object_transforms[i].build_item_index = idx
                          /\ \A j \in DOMAIN object_transforms :
                               object_transforms[j].build_item_index = idx => j <= i
            IN  object_transforms[last]]

\* Line 169: both ids present (truthy) and different.
NoMismatchCheck(expected_object_id, actual_object_id) == FALSE
ObjectIdMismatch(expected_object_id, actual_object_id) ==
    /\ expected_object_id \notin {NoId, ""}
    /\ actual_object_id \notin {NoId, ""}
    /\ expected_object_id # actual_object_id

\* Lines 175-182: the new transform text of one build item.
ComposeOnTheLeft(current_attr, tx_spec) ==
    LET current == _parse_3mf_transform(current_attr)
        rotated == IF tx_spec.rotate_z_deg # 0
                   THEN ComposeSwapped(current, _rotation_z_3mf(tx_spec.rotate_z_deg))
                   ELSE current
        moved   == [rotated EXCEPT ![10] = @ + tx_spec.translate_x_mm,
                                   ![11] = @ + tx_spec.translate_y_mm]
    IN  _format_3mf_transform(moved)

NewTransform(current_attr, tx_spec) ==
    LET current == _parse_3mf_transform(current_attr)
        rotated == IF tx_spec.rotate_z_deg # 0
                   THEN _compose_affine(current, _rotation_z_3mf(tx_spec.rotate_z_deg))
                   ELSE current
        moved   == [rotated EXCEPT ![10] = @ + tx_spec.translate_x_mm,
                                   ![11] = @ + tx_spec.translate_y_mm]
    IN  _format_3mf_transform(moved)

\* Lines 162-173: the first build item whose expected id does not match.
AnyMismatch(items, normalized) ==
    \E idx \in DOMAIN items :
        /\ idx \in DOMAIN normalized
        /\ ObjectIdMismatch(normalized[idx].object_id, items[idx].objectid)

\* `applied`: the indices of the build items that were given a transform.
applied_of(items, normalized) == DOMAIN items \cap DOMAIN normalized

\* Lines 193-195: requested indices that name no build item.
NoMissingCheck(items, normalized) == {}
missing_of(items, normalized) == DOMAIN normalized \ applied_of(items, normalized)

\* _patch_build_item_transform_attributes: the text of the named <item> tags
\* gets the new transform; every other tag is returned as matched.
_patch_build_item_transform_attributes(items, normalized) ==
    [idx \in DOMAIN items |->
        IF idx \in DOMAIN normalized
        THEN [items[idx] EXCEPT
                 !.transform = NewTransform(items[idx].transform, normalized[idx])]
        ELSE items[idx]]

\* Lines 309-329: object id -> request entry, for the object ids carried by
\* exactly one transformed build item.
spec_by_object_id_of(items, normalized) ==
    LET applied == applied_of(items, normalized)
        keys == {items[idx].objectid : idx \in {a \in applied : items[a].objectid # NoId}}
        once == {k \in keys :
                   Cardinality({a \in applied : items[a].objectid = k}) = 1}
    IN  [k \in once |->
            normalized[CHOOSE a \in applied : items[a].objectid = k]]

\* _patch_model_settings_assemble_transforms: lines 331-360, one tag at a time.
_patch_model_settings_assemble_transforms(assemble, items, normalized) ==
    LET by_id == spec_by_object_id_of(items, normalized)
    IN  [assemble_counter \in DOMAIN assemble |->
            LET tag == assemble[assemble_counter]
                keyed == /\ tag.object_id \notin {NoId, ""}
                         /\ tag.object_id \in DOMAIN by_id
                found == keyed \/ assemble_counter \in DOMAIN normalized
                spec == IF keyed THEN by_id[tag.object_id]
                        ELSE normalized[assemble_counter]
            IN  IF ~found \/ tag.transform = <<>> THEN tag
                ELSE [tag EXCEPT !.transform = NewTransform(tag.transform, spec)]]

\* Lines 209-218: every entry is written by name and bytes into an archive
\* opened with ZIP_DEFLATED.
KeepSourceCompression(info) == info.compress_type
WrittenByName(info) == "deflated"

ApplyRaises(zf, object_transforms) ==
    \/ object_transforms = <<>>
    \/ IndexBelowOne(object_transforms)
    \/ DuplicateIndex(object_transforms)
    \/ AnyMismatch(BuildItems(zf), normalized_of(object_transforms))
    \/ missing_of(BuildItems(zf), normalized_of(object_transforms)) # {}

ApplyOutput(zf, object_transforms) ==
    LET normalized == normalized_of(object_transforms)
        items == BuildItems(zf)
    IN  [i \in DOMAIN zf |->
            IF zf[i].filename = MODEL_NAME THEN
                Entry(MODEL_NAME, WrittenByName(zf[i]),
                      [zf[i].body EXCEPT !.items =
                          _patch_build_item_transform_attributes(items, normalized)])
            ELSE IF zf[i].filename = MODEL_SETTINGS_NAME THEN
                Entry(MODEL_SETTINGS_NAME, WrittenByName(zf[i]),
                      [zf[i].body EXCEPT !.assemble =
                          _patch_model_settings_assemble_transforms(
                              zf[i].body.assemble, items, normalized)])
            ELSE Entry(zf[i].filename, WrittenByName(zf[i]), zf[i].body)]

apply_object_transforms_to_3mf(object_transforms) ==
    /\ call.op = "none"
    /\ call' = [op |-> "apply_object_transforms_to_3mf",
                object_transforms |-> object_transforms]
    /\ IF ApplyRaises(src_3mf, object_transforms)
       THEN /\ outcome' = "ValueError"
            /\ UNCHANGED output_3mf
       ELSE /\ outcome' = "ok"
            /\ output_3mf' = ApplyOutput(src_3mf, object_transforms)
    /\ UNCHANGED <<src_3mf, profiles, invoked, scene, workdir>>

-----------------------------------------------------------------------------
(* multi_plate_parser.py: parse_multi_plate_3mf, extract_plate_to_3mf *)

_transform_3x4_to_4x4(transform_values) ==
    IF Len(transform_values) # 12
    THEN <<ONE, 0, 0, 0,  0, ONE, 0, 0,  0, 0, ONE, 0,  0, 0, 0, ONE>>
    ELSE transform_values \o <<0, 0, 0, ONE>>

FirstTwelve(transform_str) ==
    IF Len(transform_str) = 12 THEN transform_str
    ELSE IF Len(transform_str) = 16 THEN SubSeq(transform_str, 1, 12)
    ELSE IDENTITY_3MF

\* values = [] when a token is not numeric (default_identity is True at
\* every call).
_parse_3mf_transform_values(transform_str) ==
    IF ~AllNumeric(transform_str) THEN IDENTITY_3MF
    ELSE IF Len(transform_str) = 12 THEN transform_str
    ELSE IF Len(transform_str) = 16 THEN
        << transform_str[1], transform_str[2], transform_str[3],
           transform_str[5], transform_str[6], transform_str[7],
           transform_str[9], transform_str[10], transform_str[11],
           transform_str[13], transform_str[14], transform_str[15] >>
    ELSE IDENTITY_3MF

\* The plates of a file: one per build item when there is more than one
\* build item, none otherwise (lines 266-317).
parse_multi_plate_3mf(zf) ==
    LET items == BuildItems(zf)
    IN  IF Len(items) <= 1 THEN <<>>
        ELSE [i \in DOMAIN items |->
                [plate_id |-> i,
                 object_id |-> IF items[i].objectid # NoId
                               THEN items[i].objectid ELSE ToString(i),
                 transform |-> _transform_3x4_to_4x4(
                                   _parse_3mf_transform_values(items[i].transform)),
                 printable |-> items[i].printable # "0"]]

is_multi_plate(zf) == Len(parse_multi_plate_3mf(zf)) > 1

\* Line 1068.
MarkAllPrintable(idx, target_plate_id) == "1"
PrintableFlag(idx, target_plate_id) ==
    IF idx = target_plate_id THEN "1" ELSE "0"

\* Lines 1039-1047 and 1062-1063.
PlateNotFound(zf, target_plate_id) ==
    ~ \E i \in DOMAIN parse_multi_plate_3mf(zf) :
          parse_multi_plate_3mf(zf)[i].plate_id = target_plate_id

\* Lines 1067-1077: the model is re-serialised by ElementTree and written by
\* name; every other entry is written with its own ZipInfo.
ExtractOutput(zf, target_plate_id) ==
    [i \in DOMAIN zf |->
        IF zf[i].filename = MODEL_NAME THEN
            Entry(MODEL_NAME, "deflated",
                  [zf[i].body EXCEPT
                      !.ser = "etree",
                      !.items =
                          [idx \in DOMAIN zf[i].body.items |->
                              [zf[i].body.items[idx] EXCEPT
                                  !.printable = PrintableFlag(idx, target_plate_id)]]])
        ELSE zf[i]]

extract_plate_to_3mf(target_plate_id) ==
    /\ call.op = "none"
    /\ call' = [op |-> "extract_plate_to_3mf", target_plate_id |-> target_plate_id]
    /\ IF ~is_multi_plate(src_3mf)
       THEN /\ outcome' = "ok"                      \* shutil.copy2
            /\ output_3mf' = src_3mf
       ELSE IF PlateNotFound(src_3mf, target_plate_id)
       THEN /\ outcome' = "ValueError"
            /\ UNCHANGED output_3mf
       ELSE /\ outcome' = "ok"
            /\ output_3mf' = ExtractOutput(src_3mf, target_plate_id)
    /\ UNCHANGED <<src_3mf, profiles, invoked, scene, workdir>>

-----------------------------------------------------------------------------
(* Bounds and input sets of the archive operations *)

MaxItems == 2          \* build items in a source archive

T50 == <<ONE, 0, 0,  0, ONE, 0,  0, 0, ONE,  MM(50), MM(50), 0>>
\* a quarter turn with a translation that has more than six decimals
TFine == <<0, -ONE, 0,  ONE, 0, 0,  0, 0, ONE,  MM(20) + 2, MM(7), MM(5)>>
TAsm == <<ONE, 0, 0,  0, ONE, 0,  0, 0, ONE,  MM(30), MM(40) + 1, MM(1)>>

ItemChoices ==
    { [objectid |-> "1", transform |-> T50,   printable |-> "1"],
      [objectid |-> "2", transform |-> <<>>,  printable |-> "0"],
      [objectid |-> "2", transform |-> TFine, printable |-> "none"],
      [objectid |-> NoId, transform |-> <<>>, printable |-> "1"] }

SeqsUpTo(S, n) == UNION {[1..k -> S] : k \in 0..n}

\* model_settings.config, when present, has one assemble_item per build
\* item, in build order and with the build item's object id.
AssembleFor(items) ==
    [i \in DOMAIN items |-> [object_id |-> items[i].objectid, transform |-> TAsm]]

Archive(items, with_settings) ==
    << Entry("[Content_Types].xml", "deflated", Blob(1)),
       Entry(MODEL_NAME, "deflated", ModelBody("source", items)) >>
    \o (IF with_settings
        THEN << Entry(MODEL_SETTINGS_NAME, "deflated",
                      SettingsBody("source", AssembleFor(items))) >>
        ELSE << >>)
    \o << Entry("Metadata/plate_1.png", "stored", Blob(2)) >>

SourceArchives ==
    { Archive(items, ws) :
        items \in SeqsUpTo(ItemChoices, MaxItems), ws \in BOOLEAN }

Motions ==
    { [translate_x_mm |-> MM(10), translate_y_mm |-> -MM(5), rotate_z_deg |-> 0],
      [translate_x_mm |-> 1, translate_y_mm |-> 0, rotate_z_deg |-> 90] }

TransformEntries ==
    { [build_item_index |-> idx, object_id |-> oid,
       translate_x_mm |-> m.translate_x_mm, translate_y_mm |-> m.translate_y_mm,
       rotate_z_deg |-> m.rotate_z_deg] :
        idx \in 0..(MaxItems + 1), oid \in {NoId, "", "1"}, m \in Motions }

\* requests of no, one and two entries
TransformRequests ==
    {<<>>} \cup {<<a>> : a \in TransformEntries}
           \cup {<<a, b>> : a, b \in TransformEntries}

PlateIds == 0..(MaxItems + 1)

InitMutate ==
    /\ src_3mf \in SourceArchives
    /\ output_3mf = <<>>
    /\ call = [op |-> "none"]
    /\ outcome = "none"
    /\ profiles = NoProfiles
    /\ invoked = {}
    /\ scene = NoScene
    /\ workdir = {}

NextMutate ==
    \/ \E object_transforms \in TransformRequests :
           apply_object_transforms_to_3mf(object_transforms)
    \/ \E target_plate_id \in PlateIds :
           extract_plate_to_3mf(target_plate_id)

SpecMutate == InitMutate /\ [][NextMutate]_vars

-----------------------------------------------------------------------------
(* Claims about apply_object_transforms_to_3mf and extract_plate_to_3mf *)

Applied == call.op = "apply_object_transforms_to_3mf"
Extracted == call.op = "extract_plate_to_3mf"

ItemCount == Len(BuildItems(src_3mf))

\* The three rejected shapes of a request, read off the request and the
\* source archive.
RepeatsAnIndex(req) ==
    \E i, j \in DOMAIN req :
        i # j /\ req[i].build_item_index = req[j].build_item_index

IndexOutOfRange(req) ==
    \E i \in DOMAIN req :
        req[i].build_item_index < 1 \/ req[i].build_item_index > ItemCount

ExpectsAnotherObject(req) ==
    \E i \in DOMAIN req :
        /\ req[i].build_item_index \in 1..ItemCount
        /\ req[i].object_id \notin {NoId, ""}
        /\ BuildItems(src_3mf)[req[i].build_item_index].objectid \notin {NoId, ""}
        /\ req[i].object_id # BuildItems(src_3mf)[req[i].build_item_index].objectid

InvalidRequest(req) ==
    RepeatsAnIndex(req) \/ IndexOutOfRange(req) \/ ExpectsAnotherObject(req)

\* C1: a call of apply_object_transforms_to_3mf whose request repeats a
\* build_item_index, names an index outside 1..n, or gives an expected object
\* id other than the objectid of the build item it names fails with a
\* ValueError; the step writes no output archive and leaves the source
\* archive, with its build-item and assemble-item transforms, as it was.
C1_InvalidRequestRejected ==
    [][ ( /\ call.op = "none"
          /\ call'.op = "apply_object_transforms_to_3mf"
          /\ InvalidRequest(call'.object_transforms) )
        => /\ outcome' = "ValueError"
           /\ output_3mf' = <<>>
           /\ src_3mf' = src_3mf ]_vars

C1_Witness ==
    /\ Applied
    /\ Len(call.object_transforms) = 2
    /\ ~RepeatsAnIndex(call.object_transforms)
    /\ ~IndexOutOfRange(call.object_transforms)
    /\ ExpectsAnotherObject(call.object_transforms)
    /\ AssembleItems(src_3mf) # <<>>
    /\ outcome = "ValueError"
    /\ output_3mf = <<>>

\* C2: for an accepted request, each named build item gets
\* compose(current, Rz(rotate_z_deg)) with dx, dy added to tx, ty, written
\* with six decimals: the linear part is current_linear * Rz, tz is kept and
\* the rotation does not move the translation; every other build item keeps
\* its transform attribute as it was.
EntryFor(req, idx) ==
    req[CHOOSE i \in DOMAIN req : req[i].build_item_index = idx]

\* current_linear * Rz, column by column, for a rotation of deg degrees:
\* Rz's columns are (c, s, 0), (-s, c, 0), (0, 0, 1).
ExpectedCoefficient(cur, deg, i) ==
    LET r == (i - 1) \div 3
        c == (i - 1) % 3
        m0 == cur[3*r + 1]
        m1 == cur[3*r + 2]
        m2 == cur[3*r + 3]
        d == deg % 360
    IN  CASE c = 2 -> m2
          [] c = 0 -> (CASE d = 0 -> m0 [] d = 90 -> m1
                         [] d = 180 -> -m0 [] OTHER -> -m1)
          [] c = 1 -> (CASE d = 0 -> m1 [] d = 90 -> -m0
                         [] d = 180 -> -m1 [] OTHER -> m0)

ExpectedTransform(attr, e) ==
    LET cur == _parse_3mf_transform(attr)
    IN  [i \in 1..12 |->
            Round6(CASE i <= 9 -> ExpectedCoefficient(cur, e.rotate_z_deg, i)
                     [] i = 10 -> cur[10] + e.translate_x_mm
                     [] i = 11 -> cur[11] + e.translate_y_mm
                     [] OTHER  -> cur[12])]

C2_TransformComposed ==
    (Applied /\ outcome = "ok") =>
        /\ Len(BuildItems(output_3mf)) = ItemCount
        /\ \A idx \in 1..ItemCount :
            LET before == BuildItems(src_3mf)[idx]
                after == BuildItems(output_3mf)[idx]
                named == \E i \in DOMAIN call.object_transforms :
                            call.object_transforms[i].build_item_index = idx
            IN  /\ after.objectid = before.objectid
                /\ after.printable = before.printable
                /\ named => after.transform =
                       ExpectedTransform(before.transform,
                                         EntryFor(call.object_transforms, idx))
                /\ ~named => after.transform = before.transform

\* the translation scenario of the specification (50 50 0 moved by (10, -5)
\* gives 60 45 0) next to an item the request does not name
C2_Witness ==
    /\ Applied /\ outcome = "ok"
    /\ ItemCount = 2
    /\ Len(call.object_transforms) = 1
    /\ call.object_transforms[1].build_item_index = 1
    /\ call.object_transforms[1].rotate_z_deg = 0
    /\ call.object_transforms[1].translate_x_mm = MM(10)
    /\ call.object_transforms[1].translate_y_mm = -MM(5)
    /\ BuildItems(src_3mf)[1].transform = T50
    /\ BuildItems(output_3mf)[1].transform =
           <<ONE, 0, 0,  0, ONE, 0,  0, 0, ONE,  MM(60), MM(45), 0>>
    /\ BuildItems(output_3mf)[2].transform = TFine

\* the rotation scenario: an item without a transform attribute turned by 90
\* degrees gets the linear part 0 -1 0 1 0 0 0 0 1
RotationScenario ==
    /\ Applied /\ outcome = "ok"
    /\ \E i \in DOMAIN call.object_transforms :
        LET e == call.object_transforms[i]
        IN  /\ e.rotate_z_deg = 90
            /\ e.build_item_index \in 1..ItemCount
            /\ BuildItems(src_3mf)[e.build_item_index].transform = <<>>
            /\ BuildItems(output_3mf)[e.build_item_index].transform =
                   <<0, -ONE, 0,  ONE, 0, 0,  0, 0, ONE,  0, 0, 0>>

Rewritten(name) ==
    \/ name = MODEL_NAME
    \/ Applied /\ name = MODEL_SETTINGS_NAME

Mutated ==
    \/ Applied /\ outcome = "ok"
    \/ Extracted /\ outcome = "ok" /\ ItemCount > 1

NamesInOrder(zf) == [i \in DOMAIN zf |-> zf[i].filename]

SameNamesAndBytes ==
    /\ NamesInOrder(output_3mf) = NamesInOrder(src_3mf)
    /\ \A i \in DOMAIN src_3mf :
        ~Rewritten(src_3mf[i].filename) => output_3mf[i].body = src_3mf[i].body

\* C5 as stated: after either mutation the output has the source's entry
\* names in the source's order and every entry that is not rewritten has the
\* source's bytes and the source's compression method.
C5_UntouchedEntriesIdentical ==
    Mutated =>
        /\ SameNamesAndBytes
        /\ \A i \in DOMAIN src_3mf :
            ~Rewritten(src_3mf[i].filename) =>
                output_3mf[i].compress_type = src_3mf[i].compress_type

\* C5, amended: after either mutation the output has the source's entry names
\* in the source's order and every entry that is not rewritten has the
\* source's bytes; extract_plate_to_3mf keeps each such entry's compression
\* method, apply_object_transforms_to_3mf writes every entry deflated.
C5_UntouchedEntriesKeepBytes ==
    Mutated =>
        /\ SameNamesAndBytes
        /\ \A i \in DOMAIN src_3mf :
            ~Rewritten(src_3mf[i].filename) =>
                output_3mf[i].compress_type =
                    (IF Extracted THEN src_3mf[i].compress_type ELSE "deflated")

C5_Witness ==
    /\ Applied /\ outcome = "ok"
    /\ \E i \in DOMAIN src_3mf :
        /\ ~Rewritten(src_3mf[i].filename)
        /\ src_3mf[i].compress_type = "stored"
        /\ output_3mf[i].filename = src_3mf[i].filename
        /\ output_3mf[i].body = src_3mf[i].body
        /\ output_3mf[i].compress_type = "deflated"

-----------------------------------------------------------------------------
(* profile_embedder.py: settings documents *)

\* A settings document is a function from keys to values.  A value is a
\* string, S(x), or a list of strings, L(<<x, ...>>); the two are records
\* with different fields, as a JSON string and a JSON list are different.
S(x) == [s |-> x]
L(xs) == [l |-> xs]
IsList(v) == "l" \in DOMAIN v

EmptyConfig == [k \in {} |-> S("")]

\* dict.update, dict.pop and dict item assignment
Update(config, other) ==
    [k \in DOMAIN config \cup DOMAIN other |->
        IF k \in DOMAIN other THEN other[k] ELSE config[k]]
Pop(config, keys) == [k \in DOMAIN config \ keys |-> config[k]]
Put(config, key, value) ==
    [k \in DOMAIN config \cup {key} |-> IF k = key THEN value ELSE config[k]]
SetDefault(config, key, value) ==
    IF key \in DOMAIN config THEN config ELSE Put(config, key, value)

\* Orca's built-in names, used when a profile has no "name".
DEFAULT_PRINTER_NAME == "Snapmaker U1 (0.4 nozzle) - multiplate"
DEFAULT_PROCESS_NAME == "0.20mm Standard @Snapmaker U1"

\* profiles.printer.get('name', default): the value as stored
NameOf(profile, default) ==
    IF "name" \in DOMAIN profile THEN profile["name"] ELSE S(default)

_NON_FILAMENT_LIST_KEYS == {"compatible_printers", "compatible_prints"}

_SPECIAL_LIST_KEYS ==
    { "flush_volumes_matrix", "flush_volumes_vector",
      "different_settings_to_system", "inherits_group",
      "upward_compatible_machine", "printable_area", "bed_exclude_area",
      "thumbnails", "head_wrap_detect_zone", "extruder_offset",
      "wipe_tower_x", "wipe_tower_y" }

_ensure_list(config, key) ==
    IF key \notin DOMAIN config THEN <<>>
    ELSE IF IsList(config[key]) THEN config[key].l
    ELSE <<config[key].s>>

\* values + [values[-1]] * ..., cut or kept: the list brought to at least /
\* exactly n entries by repeating its last one
PadTo(values, n) ==
    [i \in 1..Max2(n, Len(values)) |->
        IF i <= Len(values) THEN values[i] ELSE values[Len(values)]]
Resize(values, n) ==
    [i \in 1..n |-> IF i <= Len(values) THEN values[i] ELSE values[Len(values)]]

_pad_list(values, target_len, default_value) ==
    IF target_len <= 0 THEN values
    ELSE PadTo(IF values = <<>> THEN <<default_value>> ELSE values, target_len)

\* Every list that holds a 'nil': 'nil' becomes the first other value of the
\* list; a list of nothing but 'nil' is removed with its key.
_sanitize_nil_values(config) ==
    LET has_nil(v) == IsList(v) /\ \E i \in DOMAIN v.l : v.l[i] = "nil"
        all_nil(v) == \A i \in DOMAIN v.l : v.l[i] = "nil"
        default(v) == v.l[CHOOSE i \in DOMAIN v.l :
                            /\ v.l[i] # "nil"
                            /\ \A j \in 1..(i - 1) : v.l[j] = "nil"]
        removed == {k \in DOMAIN config : has_nil(config[k]) /\ all_nil(config[k])}
    IN  [k \in DOMAIN config \ removed |->
            IF has_nil(config[k])
            THEN L([i \in DOMAIN config[k].l |->
                       IF config[k].l[i] = "nil" THEN default(config[k])
                       ELSE config[k].l[i]])
            ELSE config[k]]

PadSkip == _NON_FILAMENT_LIST_KEYS

_pad_per_filament_arrays(config, target_count) ==
    [k \in DOMAIN config |->
        IF /\ k \notin PadSkip
           /\ IsList(config[k])
           /\ 0 < Len(config[k].l) /\ Len(config[k].l) < target_count
        THEN L(PadTo(config[k].l, target_count))
        ELSE config[k]]

NormalizeSkip == _NON_FILAMENT_LIST_KEYS \cup _SPECIAL_LIST_KEYS

_normalize_per_filament_arrays(config, target_count) ==
    [k \in DOMAIN config |->
        LET value == config[k]
        IN  IF ~IsList(value) \/ value.l = <<>> THEN value
            ELSE IF k = "flush_volumes_matrix"
                 THEN L(Resize(value.l, target_count * target_count))
            ELSE IF k = "flush_volumes_vector"
                 THEN L(Resize(value.l, target_count * 2))
            ELSE IF k \in NormalizeSkip THEN value
            ELSE L(Resize(value.l, target_count))]

\* float(str(raw).strip()) over the number texts of this model, in ticks;
\* any other text raises.

FloatValue ==
    [ text \in { "0", "3", "3.5", "15", "35", "60", "165",
                 "5.000", "15.000", "26.500", "39.000", "135.000",
                 "165.000", "231.000", "243.500", "265.000" } |->
        CASE text = "0"       -> 0
          [] text = "3"       -> MM(3)
          [] text = "3.5"     -> MM(3) + ONE \div 2
          [] text = "15"      -> MM(15)
          [] text = "35"      -> MM(35)
          [] text = "60"      -> MM(60)
          [] text = "165"     -> MM(165)
          [] text = "5.000"   -> MM(5)
          [] text = "15.000"  -> MM(15)
          [] text = "26.500"  -> MM(26) + ONE \div 2
          [] text = "39.000"  -> MM(39)
          [] text = "135.000" -> MM(135)
          [] text = "165.000" -> MM(165)
          [] text = "231.000" -> MM(231)
          [] text = "243.500" -> MM(243) + ONE \div 2
          [] text = "265.000" -> MM(265) ]

IsNumber(text) == text \in DOMAIN FloatValue

\* f"{numeric:.3f}": the text with three decimals
Format3f(numeric) ==
    CHOOSE text \in {"5.000", "15.000", "26.500", "39.000", "135.000",
                     "165.000", "231.000", "243.500", "265.000"} :
        FloatValue[text] = numeric

\* str(int(...)): the text of a whole number
FormatInt(numeric) ==
    CHOOSE text \in {"0", "3", "15", "35", "60", "165"} : FloatValue[text] = numeric

\* str(raw) of a list is never a number
TextOf(raw) == IF IsList(raw) THEN "[...]" ELSE raw.s

_sanitize_index_field(config, key, minimum) ==
    IF key \notin DOMAIN config THEN config
    ELSE LET text == TextOf(config[key])
             numeric == IF ~IsNumber(text) THEN MM(minimum)
                        ELSE (FloatValue[text] \div ONE) * ONE
         IN  Put(config, key, S(FormatInt(Max2(numeric, MM(minimum)))))

_get_numeric(config, key, fallback) ==
    IF key \notin DOMAIN config THEN fallback
    ELSE LET raw == config[key]
             value == IF IsList(raw) /\ raw.l # <<>> THEN raw.l[1] ELSE TextOf(raw)
         IN  IF IsNumber(value) THEN FloatValue[value] ELSE fallback

_clamp_wipe_tower_scalar(text, min_pos, max_pos) ==
    IF ~IsNumber(text) THEN text
    ELSE Format3f(Min2(Max2(FloatValue[text], min_pos), max_pos))

_clamp_wipe_tower_value(raw, min_pos, max_pos) ==
    IF IsList(raw)
    THEN L([i \in DOMAIN raw.l |-> _clamp_wipe_tower_scalar(raw.l[i], min_pos, max_pos)])
    ELSE S(_clamp_wipe_tower_scalar(raw.s, min_pos, max_pos))

BED_SIZE_MM == MM(270)
EXTRA_MARGIN_MM == MM(6)

half_span_of(config) ==
    LET tower_width == _get_numeric(config, "prime_tower_width", MM(35))
        tower_brim == Max2(0, _get_numeric(config, "prime_tower_brim_width", MM(3)))
    IN  Max2(MM(12), tower_width \div 2 + tower_brim + EXTRA_MARGIN_MM)

_sanitize_wipe_tower_position(config) ==
    LET min_pos == half_span_of(config)
        max_pos == Max2(min_pos, BED_SIZE_MM - min_pos)
    IN  [k \in DOMAIN config |->
            IF k \in {"wipe_tower_x", "wipe_tower_y"}
            THEN _clamp_wipe_tower_value(config[k], min_pos, max_pos)
            ELSE config[k]]

_has_bambu_per_plate_wipe_tower_arrays(base_config) ==
    \E k \in {"wipe_tower_x", "wipe_tower_y"} :
        k \in DOMAIN base_config /\ IsList(base_config[k])

\* A scalar override replicated over the plates of the source's array.
_preserve_bambu_wipe_tower_array_shape(config, base_config, overrides) ==
    [k \in DOMAIN config |->
        IF /\ k \in {"wipe_tower_x", "wipe_tower_y"}
           /\ k \in DOMAIN overrides
           /\ k \in DOMAIN base_config /\ IsList(base_config[k])
           /\ base_config[k].l # <<>>
        THEN L([i \in DOMAIN base_config[k].l |-> TextOf(config[k])])
        ELSE config[k]]

\* Lines 734-736 and 985-987: a filament_start_gcode list that carries the
\* vendor's macros is removed.
VendorMacro(text) == text \in {"M142 S36", "activate_air_filtration"}

StripVendorStartGcode(config) ==
    IF /\ "filament_start_gcode" \in DOMAIN config
       /\ IsList(config["filament_start_gcode"])
       /\ \E i \in DOMAIN config["filament_start_gcode"].l :
              VendorMacro(config["filament_start_gcode"].l[i])
    THEN Pop(config, {"filament_start_gcode"})
    ELSE config

\* Lines 705-715 and 973-992: the preset references and the stripped keys.
PresetKeys(config, profs) ==
    LET printer_name == NameOf(profs.printer, DEFAULT_PRINTER_NAME)
        process_name == NameOf(profs.process, DEFAULT_PROCESS_NAME)
    IN  Put(Put(Put(Put(config,
            "printer_settings_id", printer_name),
            "print_settings_id", process_name),
            "default_print_profile", process_name),
            "print_compatible_printers", L(<<printer_name.s>>))

\* Lines 760-774.
list_defaults ==
    [ filament_type |-> "PLA", filament_colour |-> "#FFFFFF",
      extruder_colour |-> "#FFFFFF",
      default_filament_profile |-> "Snapmaker PLA",
      filament_settings_id |-> "Snapmaker PLA",
      nozzle_temperature |-> "210",
      nozzle_temperature_initial_layer |-> "210",
      bed_temperature |-> "60", bed_temperature_initial_layer |-> "60",
      cool_plate_temp |-> "60", cool_plate_temp_initial_layer |-> "60",
      textured_plate_temp |-> "60",
      textured_plate_temp_initial_layer |-> "60" ]

\* The probes of the source archive.
_has_paint_data_zip(zf) ==
    \E i \in DOMAIN zf : zf[i].body.kind = "model" /\ zf[i].body.paint_color

_get_assigned_extruder_count(zf) ==
    IF MODEL_SETTINGS_NAME \notin namelist(zf) THEN 1
    ELSE LET raw == zf[read(zf, MODEL_SETTINGS_NAME)].body.extruder
             idxs == {raw[i] : i \in DOMAIN raw} \cup {1}
         IN  CHOOSE m \in idxs : \A x \in idxs : x <= m

SourceSettings(zf) ==
    IF PROJECT_SETTINGS_NAME \in namelist(zf)
    THEN zf[read(zf, PROJECT_SETTINGS_NAME)].body.config
    ELSE EmptyConfig

\* Lines 739-744 and 753-755: the index fields and their minimums.
INDEX_MINIMUM ==
    [ raft_first_layer_expansion |-> 0, tree_support_wall_count |-> 0,
      prime_volume |-> 0, prime_tower_brim_width |-> 0,
      prime_tower_brim_chamfer |-> 0, prime_tower_brim_chamfer_max_width |-> 0,
      solid_infill_filament |-> 1, sparse_infill_filament |-> 1,
      wall_filament |-> 1 ]

SanitizeIndexFields(config, keys) ==
    [k \in DOMAIN config |->
        IF k \in keys
        THEN _sanitize_index_field(config, k, INDEX_MINIMUM[k])[k]
        ELSE config[k]]

\* Lines 700-720.
PresetsBeforeProfiles(config, profs, filament_settings, overrides) ==
    Update(Update(Update(Update(
        Pop(PresetKeys(config, profs),
            {"inherits", "inherits_group", "time_lapse_gcode", "machine_pause_gcode"}),
        profs.process), profs.filament), filament_settings), overrides)

\* Lines 757-758.
PreserveSlots(zf, requested_filament_count) ==
    Max2(Max2(_get_assigned_extruder_count(zf), requested_filament_count), 1)

\* Lines 678-801: the document of the metadata-preserving path as it stands
\* before the arrays are normalized.
PreserveUnnormalized(zf, profs, filament_settings, overrides, requested_filament_count) ==
    LET base_config == SourceSettings(zf)
        overlaid == Update(base_config, profs.printer)
        merged == PresetsBeforeProfiles(overlaid, profs, filament_settings, overrides)
        shaped == _preserve_bambu_wipe_tower_array_shape(merged, base_config, overrides)
        fixed == StripVendorStartGcode(
                     SetDefault(Put(shaped, "layer_gcode", S("G92 E0")),
                                "enable_arc_fitting", S("1")))
        indexed == SanitizeIndexFields(fixed,
                       DOMAIN INDEX_MINIMUM \ {"solid_infill_filament",
                           "sparse_infill_filament", "wall_filament"})
        clamped == IF _has_bambu_per_plate_wipe_tower_arrays(base_config)
                   THEN indexed
                   ELSE _sanitize_wipe_tower_position(indexed)
        tooled == SanitizeIndexFields(clamped,
                       {"solid_infill_filament", "sparse_infill_filament",
                        "wall_filament"})
        target_slots == PreserveSlots(zf, requested_filament_count)
        with_lists ==
            [k \in DOMAIN tooled \cup DOMAIN list_defaults |->
                IF k \in DOMAIN list_defaults
                THEN L(_pad_list(_ensure_list(tooled, k), target_slots,
                                 list_defaults[k]))
                ELSE tooled[k]]
        bed_single == _ensure_list(with_lists, "bed_temperature_initial_layer_single")
        with_single ==
            Put(with_lists, "bed_temperature_initial_layer_single",
                L(IF bed_single = <<>>
                  THEN <<with_lists["bed_temperature_initial_layer"].l[1]>>
                  ELSE bed_single))
        semm == IF _has_paint_data_zip(zf) /\ target_slots > 1
                THEN Put(Put(with_single, "single_extruder_multi_material", S("1")),
                         "ooze_prevention", S("0"))
                ELSE Put(with_single, "single_extruder_multi_material", S("0"))
    IN  _sanitize_nil_values(semm)

_build_assignment_preserving_config(zf, profs, filament_settings, overrides, requested_filament_count) ==
    _normalize_per_filament_arrays(
        PreserveUnnormalized(zf, profs, filament_settings, overrides,
                             requested_filament_count),
        PreserveSlots(zf, requested_filament_count))

\* Lines 954-998: the document of the flatten path and of a plain file as it
\* stands before the arrays are padded and normalized.
MergedUnnormalized(profs, filament_settings, overrides) ==
    LET merged == Update(Update(Update(Update(profs.printer,
                      profs.process), profs.filament), filament_settings), overrides)
        fixed == SetDefault(SetDefault(merged, "layer_gcode", S("G92 E0")),
                            "enable_arc_fitting", S("1"))
        preset == Pop(PresetKeys(fixed, profs), {"inherits", "inherits_group"})
        stripped == Pop(StripVendorStartGcode(preset),
                        {"time_lapse_gcode", "machine_pause_gcode"})
    IN  _sanitize_nil_values(stripped)

\* Lines 1004-1005.
MergedPadded(profs, filament_settings, overrides, requested_filament_count) ==
    LET clean == MergedUnnormalized(profs, filament_settings, overrides)
    IN  IF requested_filament_count > 1
        THEN _pad_per_filament_arrays(clean, requested_filament_count)
        ELSE clean

\* Lines 1012-1013.
MergedSlots(profs, filament_settings, overrides, requested_filament_count) ==
    LET padded == MergedPadded(profs, filament_settings, overrides,
                               requested_filament_count)
        fc == _ensure_list(padded, "filament_colour")
    IN  IF "filament_colour" \in DOMAIN padded
           /\ IsList(padded["filament_colour"]) /\ fc # <<>>
        THEN Len(fc) ELSE Max2(requested_filament_count, 1)

\* Lines 954-1014: the settings of the flatten path and of a plain file.
MergedConfig(profs, filament_settings, overrides, requested_filament_count) ==
    _normalize_per_filament_arrays(
        MergedPadded(profs, filament_settings, overrides, requested_filament_count),
        MergedSlots(profs, filament_settings, overrides, requested_filament_count))

-----------------------------------------------------------------------------
(* profile_embedder.py: _copy_and_inject_settings *)

\* One corner 'XxY' of a printable_area polygon, as (x, y).
Corner(pt) ==
    CASE pt = "0x0"     -> <<0, 0>>
      [] pt = "180x0"   -> <<MM(180), 0>>
      [] pt = "180x180" -> <<MM(180), MM(180)>>
      [] pt = "0x180"   -> <<0, MM(180)>>
      [] pt = "270x0"   -> <<MM(270), 0>>
      [] pt = "270x270" -> <<MM(270), MM(270)>>
      [] pt = "0x270"   -> <<0, MM(270)>>

SetMin(xs) == CHOOSE m \in xs : \A x \in xs : m <= x
SetMax(xs) == CHOOSE m \in xs : \A x \in xs : x <= m

\* (cx, cy), or <<>> for None.
_parse_printable_area_center(config) ==
    IF "printable_area" \notin DOMAIN config THEN <<>>
    ELSE LET printable_area == config["printable_area"]
         IN  IF ~IsList(printable_area) \/ Len(printable_area.l) < 3 THEN <<>>
             ELSE LET xs == {Corner(printable_area.l[i])[1] : i \in DOMAIN printable_area.l}
                      ys == {Corner(printable_area.l[i])[2] : i \in DOMAIN printable_area.l}
                  IN  << (SetMin(xs) + SetMax(xs)) \div 2,
                         (SetMin(ys) + SetMax(ys)) \div 2 >>

\* Lines 1251-1284: the bed recenter delta (dx, dy).
RecenterDelta(zf, target_config) ==
    LET target_center == _parse_printable_area_center(target_config)
        src_center == _parse_printable_area_center(SourceSettings(zf))
    IN  IF target_center = <<>> \/ PROJECT_SETTINGS_NAME \notin namelist(zf)
           \/ src_center = <<>>
        THEN <<0, 0>>
        ELSE LET recenter_dx == target_center[1] - src_center[1]
                 recenter_dy == target_center[2] - src_center[2]
             IN  IF Abs(recenter_dx) > ONE \div 2 \/ Abs(recenter_dy) > ONE \div 2
                 THEN <<recenter_dx, recenter_dy>>
                 ELSE <<0, 0>>

\* _recenter_build_items / _recenter_assemble_items on the list of tags:
\* a tag with a 12-value transform gets dx, dy added to tx, ty; a tag with
\* no transform attribute, another number of values, or a tx or ty that
\* float() rejects is returned as it was.
ShiftTags(tags, dx, dy) ==
    IF Abs(dx) < ONE \div 1000 /\ Abs(dy) < ONE \div 1000 THEN tags
    ELSE [i \in DOMAIN tags |->
            IF /\ Len(tags[i].transform) = 12
               /\ tags[i].transform[10] # NonNumeric
               /\ tags[i].transform[11] # NonNumeric
            THEN [tags[i] EXCEPT !.transform[10] = @ + dx, !.transform[11] = @ + dy]
            ELSE tags[i]]

_recenter_build_items(model, dx, dy) ==
    [model EXCEPT !.items = ShiftTags(model.items, dx, dy)]

_recenter_assemble_items(ms, dx, dy) ==
    [ms EXCEPT !.assemble = ShiftTags(ms.assemble, dx, dy)]

\* _sanitize_model_settings: plater_name cleared, extruder metadata remapped,
\* packed assemble translations moved to the bed centre; the document is
\* re-serialised when anything was set, else returned as it was.
\* extruder_remap is a function src -> dst; <<>> stands for None or {}.
PACKED_THRESHOLD == MM(135) * 2 + MM(100)

_sanitize_model_settings(ms, extruder_remap) ==
    LET remapped(src_ext) ==
            /\ src_ext \in DOMAIN extruder_remap
            /\ 1 <= extruder_remap[src_ext] /\ extruder_remap[src_ext] <= 4
            /\ extruder_remap[src_ext] # src_ext
        packed(t) == Abs(t[10]) > PACKED_THRESHOLD \/ Abs(t[11]) > PACKED_THRESHOLD
        changed == \/ ms.plater_name # ""
                   \/ \E i \in DOMAIN ms.extruder : remapped(ms.extruder[i])
                   \/ \E i \in DOMAIN ms.assemble : Len(ms.assemble[i].transform) = 12
    IN  IF ~changed THEN ms
        ELSE [ms EXCEPT
                !.ser = "etree",
                !.plater_name = "",
                !.extruder = [i \in DOMAIN ms.extruder |->
                                 IF remapped(ms.extruder[i])
                                 THEN extruder_remap[ms.extruder[i]]
                                 ELSE ms.extruder[i]],
                !.assemble = [i \in DOMAIN ms.assemble |->
                                 LET t == ms.assemble[i].transform
                                 IN  IF Len(t) = 12 /\ packed(t)
                                     THEN [ms.assemble[i] EXCEPT
                                              !.transform[10] = MM(135),
                                              !.transform[11] = MM(135),
                                              !.transform[12] = 0]
                                     ELSE ms.assemble[i]]]

\* Lines 1260-1265 and 1294: the members that are not copied.
bambu_metadata_files ==
    { "Metadata/project_settings.config", "Metadata/slice_info.config",
      "Metadata/cut_information.xml", "Metadata/filament_sequence.json" }

\* name.startswith('Metadata/plate') or ...('Metadata/top') or
\* ...('Metadata/pick'), over the member names of this model
IsPreviewImage(name) ==
    name \in { "Metadata/plate_1.png", "Metadata/plate_1.json",
               "Metadata/top_1.png", "Metadata/pick_1.png" }

CopyEverything(info) == TRUE
Copied(info) ==
    /\ info.filename \notin bambu_metadata_files
    /\ ~IsPreviewImage(info.filename)

_copy_and_inject_settings(zf, settings, extruder_remap) ==
    LET delta == RecenterDelta(zf, settings)
        data(info) ==
            IF info.filename = MODEL_SETTINGS_NAME
            THEN _recenter_assemble_items(
                     _sanitize_model_settings(info.body, extruder_remap),
                     delta[1], delta[2])
            ELSE IF info.filename = MODEL_NAME
            THEN _recenter_build_items(info.body, delta[1], delta[2])
            ELSE info.body
        kept == SelectSeq(zf, Copied)
    IN  [i \in DOMAIN kept |-> [kept[i] EXCEPT !.body = data(kept[i])]]
        \o << Entry(PROJECT_SETTINGS_NAME, "deflated",
                    [kind |-> "project_settings", config |-> settings]) >>

-----------------------------------------------------------------------------
(* profile_embedder.py: embed_profiles *)

\* _rebuild_with_trimesh: the mesh loader exports a fresh archive that holds
\* the geometry of the printable build items and nothing of the source's
\* metadata.
_rebuild_with_trimesh(zf) ==
    LET printable(item) == item.printable # "0"
    IN  << Entry("[Content_Types].xml", "deflated", Blob(0)),
           Entry("_rels/.rels", "deflated", Blob(0)),
           Entry(MODEL_NAME, "deflated",
                 [kind |-> "model", ser |-> "trimesh", paint_color |-> FALSE,
                  items |-> SelectSeq(BuildItems(zf), printable)]) >>

\* Lines 900-905.
PaintAloneSuffices(has_multi_assignments, has_layer_changes, is_bambu, requested_filament_count, has_paint) ==
    has_multi_assignments \/ has_layer_changes \/ (is_bambu /\ has_paint)

needs_preserve_of(has_multi_assignments, has_layer_changes, is_bambu, requested_filament_count, has_paint) ==
    \/ has_multi_assignments
    \/ has_layer_changes
    \/ (is_bambu /\ requested_filament_count > 1 /\ has_paint)

CUSTOM_GCODE_NAME == "Metadata/custom_gcode_per_layer.xml"

\* Line 1036: custom gcode is injected after a flatten only.
InjectsCustomGcode(is_bambu, has_layer_changes, needs_preserve, bambu_plate_id) ==
    is_bambu /\ has_layer_changes /\ ~needs_preserve /\ bambu_plate_id # 0

\* The entries of the selected vendor plate, renumbered as plate 1, replace
\* the member; a source without the member or without the plate, or one that
\* does not parse, leaves the output as it is.
_inject_custom_gcode(source, output, bambu_plate_id) ==
    IF CUSTOM_GCODE_NAME \notin namelist(source) THEN output
    ELSE LET body == source[read(source, CUSTOM_GCODE_NAME)].body
             found == IF body.kind = "custom_gcode"
                      THEN {i \in DOMAIN body.plates :
                               body.plates[i].id = bambu_plate_id}
                      ELSE {}
             target_plate == body.plates[CHOOSE i \in found : \A j \in found : i <= j]
             others(info) == info.filename # CUSTOM_GCODE_NAME
         IN  IF found = {} THEN output
             ELSE SelectSeq(output, others)
                  \o << Entry(CUSTOM_GCODE_NAME, "deflated",
                              [kind |-> "custom_gcode",
                               plates |-> << [target_plate EXCEPT !.id = 1] >>]) >>

\* _strip_non_printable_items writes its copy exactly when a build item with
\* an objectid is marked printable="0".
StripsNonPrintable(zf) ==
    \E i \in DOMAIN BuildItems(zf) :
        BuildItems(zf)[i].printable = "0" /\ BuildItems(zf)[i].objectid # NoId

\* an object of type 'other' in some *.model member
_has_modifier_parts(zf) ==
    \E i \in DOMAIN zf : zf[i].body.kind = "submodel" /\ zf[i].body.type_other

\* The branch embed_profiles takes (lines 905 and 944).
PathOf(is_bambu, needs_preserve) ==
    IF is_bambu /\ needs_preserve THEN "preserve"
    ELSE IF is_bambu THEN "flatten" ELSE "plain"

\* The steps that write an archive on a path, any of which can raise.
FailurePoints(path, zf) ==
    {"none", "_copy_and_inject_settings"}
    \cup (IF path = "flatten" THEN {"trimesh"} ELSE {})
    \cup (IF path = "flatten" /\ StripsNonPrintable(zf)
          THEN {"_strip_non_printable_items"} ELSE {})
    \cup (IF path = "flatten" /\ _has_modifier_parts(zf)
          THEN {"_strip_modifier_parts"} ELSE {})

\* The temporary archives that exist when embed_profiles is left.  written is
\* whether the step that raised had created its own file by then.
\*   _rebuild_with_trimesh (lines 263-304) deletes temp_files in the finally
\*   of the mesh-loader block only; a file joins temp_files after the step
\*   that writes it has returned.
\*   embed_profiles (lines 1040-1051) deletes working_3mf, which is the clean
\*   archive only once _rebuild_with_trimesh has returned.
\*   _copy_and_inject_settings (lines 1324-1329) renames or deletes its .tmp.
TempFilesLeft(path, zf, failure, written) ==
    CASE failure = "_strip_non_printable_items" ->
            IF written THEN {"_printable_"} ELSE {}
      [] failure = "_strip_modifier_parts" ->
            (IF StripsNonPrintable(zf) THEN {"_printable_"} ELSE {})
            \cup (IF written THEN {"_nomod_"} ELSE {})
      [] failure = "trimesh" -> IF written THEN {"_clean_"} ELSE {}
      [] OTHER -> {}

\* Flow-calibrate stripping rewrites machine_start_gcode only, which the
\* documents of this model do not carry.
embed_profiles(filament_settings, overrides, requested_filament_count, extruder_remap, is_bambu, has_multi_assignments, has_layer_changes, bambu_plate_id, failure) ==
    LET needs_preserve ==
            needs_preserve_of(has_multi_assignments, has_layer_changes, is_bambu,
                              requested_filament_count, _has_paint_data_zip(src_3mf))
        path == PathOf(is_bambu, needs_preserve)
        steps == CASE path = "preserve" -> {"_build_assignment_preserving_config"}
                   [] path = "flatten"  -> {"_rebuild_with_trimesh"}
                   [] OTHER             -> {}
        copies == failure \in {"none", "_copy_and_inject_settings"}
        injects == InjectsCustomGcode(is_bambu, has_layer_changes, needs_preserve,
                                      bambu_plate_id)
    IN
    /\ call.op = "none"
    /\ profiles.loaded
    /\ failure \in FailurePoints(path, src_3mf)
    /\ call' = [op |-> "embed_profiles",
                filament_settings |-> filament_settings,
                overrides |-> overrides,
                requested_filament_count |-> requested_filament_count,
                extruder_remap |-> extruder_remap,
                is_bambu |-> is_bambu,
                has_multi_assignments |-> has_multi_assignments,
                has_layer_changes |-> has_layer_changes,
                bambu_plate_id |-> bambu_plate_id,
                failure |-> failure]
    /\ invoked' = invoked \cup steps
                  \cup (IF copies THEN {"_copy_and_inject_settings"} ELSE {})
                  \cup (IF failure = "none" /\ injects
                        THEN {"_inject_custom_gcode"} ELSE {})
    /\ \E written \in BOOLEAN :
           workdir' = workdir \cup TempFilesLeft(path, src_3mf, failure, written)
    /\ IF failure # "none" THEN
            /\ outcome' = "ProfileEmbedError"
            /\ UNCHANGED output_3mf
       ELSE IF path = "preserve" THEN
            /\ outcome' = "ok"
            /\ output_3mf' =
                 _copy_and_inject_settings(
                     src_3mf,
                     _build_assignment_preserving_config(
                         src_3mf, profiles, filament_settings, overrides,
                         requested_filament_count),
                     extruder_remap)
       ELSE
            /\ outcome' = "ok"
            /\ \E copied \in
                   { _copy_and_inject_settings(
                         IF is_bambu THEN _rebuild_with_trimesh(src_3mf) ELSE src_3mf,
                         MergedConfig(profiles, filament_settings, overrides,
                                      requested_filament_count),
                         extruder_remap) } :
                 output_3mf' = IF injects
                               THEN _inject_custom_gcode(src_3mf, copied, bambu_plate_id)
                               ELSE copied
    /\ UNCHANGED <<src_3mf, profiles, scene>>

-----------------------------------------------------------------------------
(* Bounds and input sets of embed_profiles *)

MaxFilaments == 2      \* requested_filament_count ranges over 1..MaxFilaments

Area180 == L(<<"0x0", "180x0", "180x180", "0x180">>)
Area270 == L(<<"0x0", "270x0", "270x270", "0x270">>)

PrinterProfiles ==
    { [name |-> S("Snapmaker U1"), printable_area |-> Area270,
       inherits |-> S("fdm_machine_common"), machine_pause_gcode |-> S("M601"),
       nozzle_diameter |-> L(<<"0.4">>)],
      [printable_area |-> Area270, time_lapse_gcode |-> S("; timelapse"),
       nozzle_diameter |-> L(<<"0.4">>)] }

ProcessProfiles ==
    { [name |-> S("0.20mm Standard"), layer_height |-> S("0.2"),
       compatible_printers |-> L(<<"Snapmaker U1", "Snapmaker U1 (0.6 nozzle)">>)],
      [name |-> S("0.20mm Standard"), layer_height |-> S("0.2"),
       inherits |-> S("fdm_process_common")] }

FilamentProfile ==
    [filament_type |-> L(<<"PLA">>), filament_colour |-> L(<<"#FF0000">>)]

ProfileSets ==
    { [loaded |-> TRUE, printer |-> pr, process |-> pc, filament |-> FilamentProfile] :
        pr \in PrinterProfiles, pc \in ProcessProfiles }

\* the vendor's own project settings: a smaller bed, its preset references
VendorSettings ==
    [printable_area |-> Area180, printer_settings_id |-> S("Bambu Lab A1 mini"),
     print_settings_id |-> S("0.20mm Standard @BBL A1M"),
     inherits_group |-> L(<<"", "">>), time_lapse_gcode |-> S("M971"),
     filament_colour |-> L(<<"#00FF00", "nil">>),
     filament_type |-> L(<<"nil", "nil">>)]

FilamentSettingsChoices ==
    { [nozzle_temperature |-> L(<<"210">>)],
      [nozzle_temperature |-> L(<<"210", "215">>),
       filament_colour |-> L(<<"#111111", "#222222">>),
       inherits |-> S("Bambu PLA Basic")] }

OverridesChoices == { EmptyConfig, [layer_height |-> S("0.3")] }

ExtruderRemaps == { <<>>, [src_ext \in {2} |-> 1] }

\* a translation in the vendor's packed plate grid, beyond the bed
TPacked == <<ONE, 0, 0,  0, ONE, 0,  0, 0, ONE,  MM(400), MM(30), MM(62)>>

EmbedItems ==
    << [objectid |-> "1", transform |-> T50, printable |-> "1"],
       [objectid |-> "2", transform |-> <<>>, printable |-> "0"] >>

ModelSettingsChoices ==
    { [kind |-> "model_settings", ser |-> "source", plater_name |-> "",
       extruder |-> <<1>>,
       assemble |-> << [object_id |-> "1", transform |-> <<>>] >>],
      [kind |-> "model_settings", ser |-> "source", plater_name |-> "Plate 1",
       extruder |-> <<1, 2>>,
       assemble |-> << [object_id |-> "1", transform |-> TPacked],
                       [object_id |-> "2", transform |-> TAsm] >>] }

ExtraMembers ==
    { <<>>,
      << Entry("Auxiliaries/notes.txt", "stored", Blob(3)) >>,
      << Entry("Metadata/slice_info.config", "deflated", Blob(4)),
         Entry("Metadata/plate_1.png", "stored", Blob(5)) >>,
      << Entry("Metadata/custom_gcode_per_layer.xml", "deflated", Blob(6)),
         Entry("Metadata/filament_sequence.json", "deflated", Blob(7)),
         Entry("Metadata/top_1.png", "stored", Blob(8)),
         Entry("Auxiliaries/notes.txt", "stored", Blob(3)) >> }

EmbedArchive(paint, settings, project, extras) ==
    << Entry("[Content_Types].xml", "deflated", Blob(1)),
       Entry(MODEL_NAME, "deflated",
             [kind |-> "model", ser |-> "source", items |-> EmbedItems,
              paint_color |-> paint]) >>
    \o settings \o project \o extras

EmbedArchives ==
    { EmbedArchive(paint, settings, project, extras) :
        paint \in BOOLEAN,
        settings \in {<<>>} \cup
            { << Entry(MODEL_SETTINGS_NAME, "deflated", ms) >> :
                ms \in ModelSettingsChoices },
        project \in
            { <<>>,
              << Entry(PROJECT_SETTINGS_NAME, "deflated",
                       [kind |-> "project_settings", config |-> VendorSettings]) >> },
        extras \in ExtraMembers }

InitEmbed ==
    /\ src_3mf \in EmbedArchives
    /\ output_3mf = <<>>
    /\ call = [op |-> "none"]
    /\ outcome = "none"
    /\ profiles \in ProfileSets
    /\ invoked = {}
    /\ scene = NoScene
    /\ workdir = {}

NextEmbed ==
    \E filament_settings \in FilamentSettingsChoices,
       overrides \in OverridesChoices,
       requested_filament_count \in 1..MaxFilaments,
       extruder_remap \in ExtruderRemaps,
       is_bambu \in BOOLEAN, has_multi_assignments \in BOOLEAN,
       has_layer_changes \in BOOLEAN, failure \in {"none", "trimesh"} :
        embed_profiles(filament_settings, overrides, requested_filament_count,
                       extruder_remap, is_bambu, has_multi_assignments,
                       has_layer_changes, 0, failure)

SpecEmbed == InitEmbed /\ [][NextEmbed]_vars

-----------------------------------------------------------------------------
(* Claims about embed_profiles *)

Embedded == call.op = "embed_profiles" /\ outcome = "ok"

Flattened == "_rebuild_with_trimesh" \in invoked
Preserved == "_build_assignment_preserving_config" \in invoked

Replaced(name) ==
    name \in {PROJECT_SETTINGS_NAME, MODEL_NAME, MODEL_SETTINGS_NAME}

PresentUnchanged(info) ==
    \E j \in DOMAIN output_3mf :
        /\ output_3mf[j].filename = info.filename
        /\ output_3mf[j].body = info.body

VendorOnly(name) ==
    \/ name \in { "Metadata/slice_info.config", "Metadata/cut_information.xml",
                  "Metadata/filament_sequence.json" }
    \/ IsPreviewImage(name)

WrittenSettings == output_3mf[read(output_3mf, PROJECT_SETTINGS_NAME)].body.config

\* C10 as stated: in the settings document written on either path,
\* printer_settings_id is the printer profile's name, print_settings_id and
\* default_print_profile are the process profile's name,
\* print_compatible_printers is the one-element list of the printer name, and
\* inherits, inherits_group, time_lapse_gcode and machine_pause_gcode are
\* absent.
C10_PresetReferences ==
    Embedded =>
        LET printer_name == NameOf(profiles.printer, DEFAULT_PRINTER_NAME)
            process_name == NameOf(profiles.process, DEFAULT_PROCESS_NAME)
            config == WrittenSettings
        IN  /\ {"printer_settings_id", "print_settings_id",
                "default_print_profile", "print_compatible_printers"}
                   \subseteq DOMAIN config
            /\ config["printer_settings_id"] = printer_name
            /\ config["print_settings_id"] = process_name
            /\ config["default_print_profile"] = process_name
            /\ config["print_compatible_printers"] = L(<<printer_name.s>>)
            /\ DOMAIN config \cap {"inherits", "inherits_group",
                                   "time_lapse_gcode", "machine_pause_gcode"} = {}

-----------------------------------------------------------------------------
(* routes_slice.py: origin detection over item world bounds *)

\* Bounds are <<min_x, min_y, min_z, max_x, max_y, max_z>>; <<>> is None.
NoBounds == <<>>

Box(x0, y0, x1, y1) == <<x0, y0, 0, x1, y1, MM(20)>>

HasBounds(it) == it.world_bounds # NoBounds

MARGIN == MM(2)

\* The two hypotheses of _detect_origin_offset_xy over the union of bounds.
raw_fits_of(u, bed_x, bed_y) ==
    /\ u[1] >= -MARGIN
    /\ u[4] <= bed_x + MARGIN
    /\ u[2] >= -MARGIN
    /\ u[5] <= bed_y + MARGIN

shifted_fits_of(u, bed_x, bed_y) ==
    /\ u[1] + bed_x \div 2 >= -MARGIN
    /\ u[4] + bed_x \div 2 <= bed_x + MARGIN
    /\ u[2] + bed_y \div 2 >= -MARGIN
    /\ u[5] + bed_y \div 2 <= bed_y + MARGIN

BoundsUnion(items) ==
    LET bounded == {i \in DOMAIN items : HasBounds(items[i])}
    IN  IF bounded = {} THEN NoBounds
        ELSE <<SetMin({items[i].world_bounds[1] : i \in bounded}),
               SetMin({items[i].world_bounds[2] : i \in bounded}),
               SetMin({items[i].world_bounds[3] : i \in bounded}),
               SetMax({items[i].world_bounds[4] : i \in bounded}),
               SetMax({items[i].world_bounds[5] : i \in bounded}),
               SetMax({items[i].world_bounds[6] : i \in bounded})>>

TieBreakToCentre(raw_fits, shifted_fits) == raw_fits /\ ~shifted_fits

PrefersCorner(raw_fits, shifted_fits) ==
    IF raw_fits /\ shifted_fits THEN TRUE
    ELSE IF shifted_fits THEN FALSE
    ELSE raw_fits

_detect_origin_offset_xy(items, bed_x, bed_y) ==
    LET u == BoundsUnion(items)
        centre == <<bed_x \div 2, bed_y \div 2>>
    IN  IF u = NoBounds THEN centre
        ELSE IF PrefersCorner(raw_fits_of(u, bed_x, bed_y),
                              shifted_fits_of(u, bed_x, bed_y))
             THEN <<0, 0>>
             ELSE centre

detect_origin_offset(bed_x, bed_y) ==
    /\ scene.parsed
    /\ call.op = "none"
    /\ call' = [op |-> "_detect_origin_offset_xy", bed_x |-> bed_x, bed_y |-> bed_y]
    /\ scene' = [scene EXCEPT
                    !.result = _detect_origin_offset_xy(scene.items, bed_x, bed_y)]
    /\ outcome' = "ok"
    /\ UNCHANGED <<src_3mf, output_3mf, profiles, invoked, workdir>>

MaxSceneItems == 2

\* World bounds around both hypotheses' edges on the 270 mm and 200 mm beds.
BoundsChoices ==
    { NoBounds,
      Box(MM(40), MM(40), MM(60), MM(60)),
      Box(-MM(30), -MM(30), -MM(10), -MM(10)),
      Box(MM(200), MM(200), MM(260), MM(260)),
      Box(-MARGIN, MM(0), MM(20), MM(20)),
      Box(-MARGIN - 1, MM(0), MM(20), MM(20)),
      Box(MM(10), MM(10), MM(30), MM(272)),
      Box(MM(300), MM(10), MM(320), MM(30)) }

SceneItems ==
    UNION { [1..n -> {[world_bounds |-> b] : b \in BoundsChoices}] :
                n \in 0..MaxSceneItems }

Beds == { <<MM(270), MM(270)>>, <<MM(200), MM(300)>> }

InitOrigin ==
    /\ src_3mf = <<>>
    /\ output_3mf = <<>>
    /\ call = [op |-> "none"]
    /\ outcome = "none"
    /\ profiles = NoProfiles
    /\ invoked = {}
    /\ scene \in {[parsed |-> TRUE, items |-> items, result |-> <<>>] :
                     items \in SceneItems}
    /\ workdir = {}

NextOrigin == \E bed \in Beds : detect_origin_offset(bed[1], bed[2])

SpecOrigin == InitOrigin /\ [][NextOrigin]_vars

Detected == call.op = "_detect_origin_offset_xy"

\* "U fits [0, bed] directly", quantified over the items rather than
\* computed from the union: some item has bounds, and every item that has
\* bounds lies within the bed widened by the margin.
FitsDirectly(items, bed_x, bed_y) ==
    /\ \E i \in DOMAIN items : HasBounds(items[i])
    /\ \A i \in DOMAIN items :
          HasBounds(items[i]) =>
              LET b == items[i].world_bounds
              IN  /\ b[1] >= -MM(2) /\ b[4] <= bed_x + MM(2)
                  /\ b[2] >= -MM(2) /\ b[5] <= bed_y + MM(2)

FitsShifted(items, bed_x, bed_y) ==
    /\ \E i \in DOMAIN items : HasBounds(items[i])
    /\ \A i \in DOMAIN items :
          HasBounds(items[i]) =>
              LET b == items[i].world_bounds
              IN  /\ b[1] + bed_x \div 2 >= -MM(2)
                  /\ b[4] + bed_x \div 2 <= bed_x + MM(2)
                  /\ b[2] + bed_y \div 2 >= -MM(2)
                  /\ b[5] + bed_y \div 2 <= bed_y + MM(2)

\* C7: _detect_origin_offset_xy returns (0,0) when the union of the items'
\* world bounds fits the bed directly (with a 2 mm margin), whether or not it
\* also fits after adding bed/2; it returns (bed_x/2, bed_y/2) when only the
\* shifted hypothesis fits, when neither fits and when no item has bounds.
\* So the result is (0,0) exactly when the union fits directly.
C7_OriginOffset ==
    Detected =>
        LET direct == FitsDirectly(scene.items, call.bed_x, call.bed_y)
            shifted == FitsShifted(scene.items, call.bed_x, call.bed_y)
            centre == <<call.bed_x \div 2, call.bed_y \div 2>>
        IN  /\ (direct /\ shifted) => scene.result = <<0, 0>>
            /\ (direct /\ ~shifted) => scene.result = <<0, 0>>
            /\ (~direct /\ shifted) => scene.result = centre
            /\ (~direct /\ ~shifted) => scene.result = centre
            /\ (scene.result = <<0, 0>>) <=> direct

\* Both hypotheses fit and the corner origin wins.
C7_Witness ==
    /\ Detected
    /\ FitsDirectly(scene.items, call.bed_x, call.bed_y)
    /\ FitsShifted(scene.items, call.bed_x, call.bed_y)
    /\ Len(scene.items) = 2
    /\ scene.result = <<0, 0>>

-----------------------------------------------------------------------------
(* multi_plate_parser.py: build-item listing with bounds *)

_transform_point_3x4(point, t) ==
    << Mul(point[1], t[1]) + Mul(point[2], t[2]) + Mul(point[3], t[3]) + t[10],
       Mul(point[1], t[4]) + Mul(point[2], t[5]) + Mul(point[3], t[6]) + t[11],
       Mul(point[1], t[7]) + Mul(point[2], t[8]) + Mul(point[3], t[9]) + t[12] >>

_apply_affine_to_bounds_3x4(b, t) ==
    LET corners == { _transform_point_3x4(<<x, y, z>>, t) :
                        x \in {b[1], b[4]}, y \in {b[2], b[5]}, z \in {b[3], b[6]} }
    IN  << SetMin({p[1] : p \in corners}), SetMin({p[2] : p \in corners}),
           SetMin({p[3] : p \in corners}),
           SetMax({p[1] : p \in corners}), SetMax({p[2] : p \in corners}),
           SetMax({p[3] : p \in corners}) >>

get_translation(plate) == <<plate.transform[10], plate.transform[11], plate.transform[12]>>

\* Object id -> assemble transform, for the ids that exactly one
\* assemble_item with an object id and a 12-value transform carries.
AssembleByObject(assemble) ==
    LET usable == {i \in DOMAIN assemble :
                      assemble[i].object_id # NoId /\ Len(assemble[i].transform) = 12}
        once == {i \in usable :
                    \A j \in usable : assemble[j].object_id = assemble[i].object_id => j = i}
    IN  [oid \in {assemble[i].object_id : i \in once} |->
            assemble[CHOOSE i \in once : assemble[i].object_id = oid].transform]

_read_bambu_assemble_transforms_by_object_id_from_zip(zf) ==
    AssembleByObject(AssembleItems(zf))

\* Lines 354-355 and 429-430.
ListRaises(zf, plate_id) ==
    \/ MODEL_NAME \notin namelist(zf)
    \/ plate_id # 0 /\ (plate_id < 1 \/ plate_id > Len(BuildItems(zf)))

\* One entry of the listing (lines 360-422).  An item's local_bounds field
\* stands for the mesh bounds of the object it refers to; NoBounds when the
\* object has no geometry.  plate_id 0 stands for None.
ListedItem(zf, idx) ==
    LET item == BuildItems(zf)[idx]
        object_id == IF item.objectid \in {NoId, ""} THEN ToString(idx)
                     ELSE item.objectid
        t3 == _parse_3mf_transform_values(item.transform)
        by_object == _read_bambu_assemble_transforms_by_object_id_from_zip(zf)
        bounded == item.local_bounds # NoBounds
        assembled == bounded /\ object_id \in DOMAIN by_object
    IN  [build_item_index |-> idx,
         object_id |-> object_id,
         printable |-> item.printable # "0",
         transform_3x4 |-> t3,
         translation |-> <<t3[10], t3[11], t3[12]>>,
         local_bounds |-> item.local_bounds,
         world_bounds |-> IF bounded
                          THEN _apply_affine_to_bounds_3x4(item.local_bounds, t3)
                          ELSE NoBounds,
         ui_base_pose |-> <<>>,
         assemble_translation |->
             IF assembled
             THEN <<by_object[object_id][10], by_object[object_id][11],
                    by_object[object_id][12]>>
             ELSE <<>>,
         assemble_world_bounds |->
             IF assembled
             THEN _apply_affine_to_bounds_3x4(item.local_bounds, by_object[object_id])
             ELSE NoBounds]

list_build_items_3mf(zf, plate_id) ==
    IF plate_id # 0 THEN << ListedItem(zf, plate_id) >>
    ELSE [idx \in DOMAIN BuildItems(zf) |-> ListedItem(zf, idx)]

-----------------------------------------------------------------------------
(* routes_slice.py: the layout placement frame *)

\* The two loops of lines 471-478: at most eight steps up while negative,
\* then at most eight steps down while beyond the bed.
RECURSIVE FoldUp(_, _, _)
FoldUp(v, s, n) == IF n = 0 \/ v >= 0 THEN v ELSE FoldUp(v + s, s, n - 1)

RECURSIVE FoldDown(_, _, _, _)
FoldDown(v, s, b, n) == IF n = 0 \/ v <= b THEN v ELSE FoldDown(v - s, s, b, n - 1)

\* the same with nine passes of each loop
FoldNineTimes(value, step, bed_size) ==
    IF ~(step > 0) THEN value
    ELSE FoldDown(FoldUp(value, step, 9), step, Max2(ONE, bed_size), 9)

_fold_packed_plate_coord(value, step, bed_size) ==
    IF ~(step > 0) THEN value
    ELSE FoldDown(FoldUp(value, step, 8), step, Max2(ONE, bed_size), 8)

_layout_item_base_xyz(it, is_multi) ==
    LET core_t == it.translation
        asm_t == it.assemble_translation
        use_asm_xy == is_multi /\ Len(asm_t) >= 3
        t == IF use_asm_xy THEN asm_t ELSE core_t
    IN  <<t[1], t[2], core_t[3]>>

\* The smallest gap above 0.9 * bed_dim between neighbouring distinct
\* translations; 0 stands for None.
_axis_step(vals, bed_dim) ==
    LET threshold == (bed_dim \div 10) * 9
        neighbours == { <<a, b>> \in vals \X vals :
                          a < b /\ ~ \E c \in vals : a < c /\ c < b }
        diffs == { n[2] - n[1] : n \in { m \in neighbours : m[2] - m[1] > threshold } }
    IN  IF diffs = {} THEN 0 ELSE SetMin(diffs)

_infer_bambu_packed_grid_steps(zf, bed_x, bed_y) ==
    LET plates == parse_multi_plate_3mf(zf)
    IN  IF ~(Len(plates) > 1) THEN <<0, 0>>
        ELSE << _axis_step({get_translation(plates[i])[1] : i \in DOMAIN plates}, bed_x),
                _axis_step({get_translation(plates[i])[2] : i \in DOMAIN plates}, bed_y) >>

\* plate_id -> packed translation; the empty map for a single-plate file.
_read_multi_plate_translations_by_id(zf) ==
    LET plates == parse_multi_plate_3mf(zf)
    IN  [id \in {plates[i].plate_id : i \in DOMAIN plates} |->
            get_translation(plates[CHOOSE i \in DOMAIN plates : plates[i].plate_id = id])]

\* Lines 627-653.
_compute_bed_recenter_offset(zf, bed_x, bed_y) ==
    IF PROJECT_SETTINGS_NAME \notin namelist(zf) THEN <<0, 0>>
    ELSE LET config == zf[read(zf, PROJECT_SETTINGS_NAME)].body.config
         IN  IF "printable_area" \notin DOMAIN config THEN <<0, 0>>
             ELSE LET pa == config["printable_area"]
                  IN  IF ~IsList(pa) \/ Len(pa.l) < 3 THEN <<0, 0>>
                      ELSE LET xs == {Corner(pa.l[i])[1] : i \in DOMAIN pa.l}
                               ys == {Corner(pa.l[i])[2] : i \in DOMAIN pa.l}
                               dx == bed_x \div 2 - (SetMin(xs) + SetMax(xs)) \div 2
                               dy == bed_y \div 2 - (SetMin(ys) + SetMax(ys)) \div 2
                           IN  IF Abs(dx) < ONE \div 2 /\ Abs(dy) < ONE \div 2
                               THEN <<0, 0>>
                               ELSE <<dx, dy>>

\* The frame keys that vary between mappings; <<>> and "" stand for an
\* absent key.  (The constant keys and the notes are left out.)
DefaultFrame(is_multi) ==
    [confidence |-> IF ~is_multi THEN "exact" ELSE "approximate",
     mapping |-> "direct",
     offset_xy |-> <<0, 0>>,
     object_transform_edit |-> ~is_multi,
     prime_tower_edit |-> TRUE,
     origin_detected |-> "",
     plate_translation_mm |-> <<>>,
     packed_grid_step_mm |-> <<>>]

_apply_layout_direct_mapping(frame, items, is_multi, bed_x, bed_y, zf) ==
    LET recenter == _compute_bed_recenter_offset(zf, bed_x, bed_y)
        offset == IF Abs(recenter[1]) < ONE \div 100 /\ Abs(recenter[2]) < ONE \div 100
                  THEN _detect_origin_offset_xy(items, bed_x, bed_y)
                  ELSE recenter
        pose(it) == LET p == _layout_item_base_xyz(it, is_multi)
                    IN  <<p[1] + offset[1], p[2] + offset[2], p[3]>>
    IN  [frame |-> [frame EXCEPT
                       !.confidence = "exact",
                       !.mapping = "direct",
                       !.offset_xy = <<0, 0>>,
                       !.origin_detected = IF Abs(offset[1]) > ONE
                                           THEN "bed_center" ELSE "bed_corner",
                       !.object_transform_edit = TRUE,
                       !.prime_tower_edit = TRUE],
         items |-> [i \in DOMAIN items |-> [items[i] EXCEPT !.ui_base_pose = pose(items[i])]]]

\* every item taken as having no plate translation
NeverResolvable(items, plate_translations) == TRUE

\* Lines 709-717: the mapping declines when some item has no plate
\* translation.
Unresolvable(items, plate_translations) ==
    \E i \in DOMAIN items :
        \/ items[i].build_item_index <= 0
        \/ items[i].build_item_index \notin DOMAIN plate_translations

\* the same with object editing offered whatever the confidence
PlateOffsetAlwaysEditable(frame, items, plate_translations, bed_x, bed_y, allow_object_edit) ==
    IF DOMAIN plate_translations = {} THEN [frame |-> frame, items |-> items]
    ELSE IF Unresolvable(items, plate_translations)
    THEN [frame |-> frame, items |-> items]
    ELSE
        LET pose(it) ==
                LET pt == plate_translations[it.build_item_index]
                IN  <<(it.translation[1] - pt[1]) + bed_x \div 2,
                      (it.translation[2] - pt[2]) + bed_y \div 2,
                      it.translation[3]>>
        IN  [frame |-> [frame EXCEPT
                           !.confidence = IF allow_object_edit THEN "exact"
                                          ELSE "approximate",
                           !.mapping = "bambu_plate_translation_offset",
                           !.object_transform_edit = TRUE],
             items |-> [i \in DOMAIN items |-> [items[i] EXCEPT !.ui_base_pose = pose(items[i])]]]

_apply_layout_bambu_plate_translation_offset_mapping(frame, items, plate_translations, bed_x, bed_y, allow_object_edit) ==
    IF DOMAIN plate_translations = {} THEN [frame |-> frame, items |-> items]
    ELSE IF Unresolvable(items, plate_translations)
    THEN [frame |-> frame, items |-> items]
    ELSE
        LET pose(it) ==
                LET pt == plate_translations[it.build_item_index]
                IN  <<(it.translation[1] - pt[1]) + bed_x \div 2,
                      (it.translation[2] - pt[2]) + bed_y \div 2,
                      it.translation[3]>>
            only == plate_translations[items[1].build_item_index]
        IN  [frame |-> [frame EXCEPT
                           !.confidence = IF allow_object_edit THEN "exact"
                                          ELSE "approximate",
                           !.mapping = "bambu_plate_translation_offset",
                           !.offset_xy = <<0, 0>>,
                           !.object_transform_edit = allow_object_edit,
                           !.prime_tower_edit = TRUE,
                           !.plate_translation_mm =
                               IF Len(items) = 1
                               THEN <<Round6(only[1]), Round6(only[2]), Round6(only[3])>>
                               ELSE <<>>],
             items |-> [i \in DOMAIN items |-> [items[i] EXCEPT !.ui_base_pose = pose(items[i])]]]

_apply_layout_bambu_packed_grid_fold_mapping(frame, items, packed_grid_step_x, packed_grid_step_y, bed_x, bed_y) ==
    LET pose(it) ==
            LET p == _layout_item_base_xyz(it, TRUE)
            IN  <<_fold_packed_plate_coord(p[1], packed_grid_step_x, bed_x),
                  _fold_packed_plate_coord(p[2], packed_grid_step_y, bed_y),
                  p[3]>>
    IN  [frame |-> [frame EXCEPT
                       !.confidence = "approximate",
                       !.mapping = "bambu_packed_grid_fold",
                       !.packed_grid_step_mm = <<Round6(packed_grid_step_x),
                                                 Round6(packed_grid_step_y)>>,
                       !.object_transform_edit = FALSE,
                       !.prime_tower_edit = TRUE],
         items |-> [i \in DOMAIN items |-> [items[i] EXCEPT !.ui_base_pose = pose(items[i])]]]

RECURSIVE SumAxis(_, _, _)
SumAxis(items, is_multi, axis) ==
    IF items = <<>> THEN 0
    ELSE _layout_item_base_xyz(Head(items), is_multi)[axis]
         + SumAxis(Tail(items), is_multi, axis)

_apply_layout_centered_preview_offset_mapping(frame, items, is_multi, bed_x, bed_y, validation_bounds) ==
    LET assemble_bounds == { items[i].assemble_world_bounds : i \in DOMAIN items }
                               \ {NoBounds}
        center ==
            IF assemble_bounds # {} THEN
                << (SetMin({b[1] : b \in assemble_bounds})
                    + SetMax({b[4] : b \in assemble_bounds})) \div 2,
                   (SetMin({b[2] : b \in assemble_bounds})
                    + SetMax({b[5] : b \in assemble_bounds})) \div 2 >>
            ELSE IF validation_bounds # NoBounds THEN
                << (validation_bounds[1] + validation_bounds[4]) \div 2,
                   (validation_bounds[2] + validation_bounds[5]) \div 2 >>
            ELSE
                << SumAxis(items, is_multi, 1) \div Max2(1, Len(items)),
                   SumAxis(items, is_multi, 2) \div Max2(1, Len(items)) >>
        off == <<bed_x \div 2 - center[1], bed_y \div 2 - center[2]>>
        pose(it) == LET p == _layout_item_base_xyz(it, is_multi)
                    IN  <<p[1] + off[1], p[2] + off[2], p[3]>>
    IN  [frame |-> [frame EXCEPT
                       !.confidence = IF is_multi THEN "approximate" ELSE "exact",
                       !.mapping = "centered_preview_offset",
                       !.offset_xy = off,
                       !.object_transform_edit = ~is_multi,
                       !.prime_tower_edit = TRUE],
         items |-> [i \in DOMAIN items |-> [items[i] EXCEPT !.ui_base_pose = pose(items[i])]]]

\* Lines 902-905: both axes must have a step.
EitherStepUsable(packed_grid_step_x, packed_grid_step_y) ==
    packed_grid_step_x > 0 \/ packed_grid_step_y > 0

GridStepsUsable(packed_grid_step_x, packed_grid_step_y) ==
    packed_grid_step_x > 0 /\ packed_grid_step_y > 0

\* The result, together with what the plate-translation mapping handed back
\* when it was tried (tried = FALSE otherwise).
_derive_layout_placement_frame(items, zf, is_multi, plate_id, bed_x, bed_y, validation_bounds) ==
    LET frame == DefaultFrame(is_multi)
        steps == _infer_bambu_packed_grid_steps(zf, bed_x, bed_y)
        plate_translations == _read_multi_plate_translations_by_id(zf)
        can_exact_selected_plate == plate_id # 0 /\ Len(items) = 1
        mapped == _apply_layout_bambu_plate_translation_offset_mapping(
                      frame, items, plate_translations, bed_x, bed_y,
                      can_exact_selected_plate)
        tried == DOMAIN plate_translations # {}
        untried == [tried |-> FALSE]
    IN  IF items = <<>> THEN [frame |-> frame, items |-> items, mapped |-> untried]
        ELSE IF ~is_multi THEN
            _apply_layout_direct_mapping(frame, items, FALSE, bed_x, bed_y, zf)
                @@ [mapped |-> untried]
        ELSE IF tried /\ mapped.frame.mapping = "bambu_plate_translation_offset" THEN
            mapped @@ [mapped |-> [tried |-> TRUE, frame |-> mapped.frame,
                                   items |-> mapped.items]]
        ELSE
            LET attempt == IF tried
                           THEN [tried |-> TRUE, frame |-> mapped.frame,
                                 items |-> mapped.items]
                           ELSE untried
            IN  IF GridStepsUsable(steps[1], steps[2]) THEN
                    _apply_layout_bambu_packed_grid_fold_mapping(
                        mapped.frame, mapped.items, steps[1], steps[2], bed_x, bed_y)
                        @@ [mapped |-> attempt]
                ELSE
                    _apply_layout_centered_preview_offset_mapping(
                        mapped.frame, mapped.items, is_multi, bed_x, bed_y,
                        validation_bounds)
                        @@ [mapped |-> attempt]

derive_layout_placement_frame(items, is_multi, plate_id, bed_x, bed_y, validation_bounds) ==
    /\ call.op = "none"
    /\ call' = [op |-> "_derive_layout_placement_frame", items |-> items,
                is_multi_plate |-> is_multi, plate_id |-> plate_id,
                bed_x |-> bed_x, bed_y |-> bed_y,
                validation_bounds |-> validation_bounds]
    /\ scene' = [parsed |-> TRUE] @@
                _derive_layout_placement_frame(items, src_3mf, is_multi, plate_id,
                                               bed_x, bed_y, validation_bounds)
    /\ outcome' = "ok"
    /\ UNCHANGED <<src_3mf, output_3mf, profiles, invoked, workdir>>

Shift(x, y) == <<ONE, 0, 0,  0, ONE, 0,  0, 0, ONE,  x, y, 0>>

LocalBox == <<-MM(10), -MM(10), 0, MM(10), MM(10), MM(20)>>

\* Plates packed on a 120 mm grid, wider than 0.9 of the 100 mm bed, and one
\* plate 40 mm from the first.
FrameItemChoices ==
    { [objectid |-> "1", transform |-> Shift(0, 0), printable |-> "1",
       local_bounds |-> LocalBox],
      [objectid |-> "2", transform |-> Shift(MM(120), 0), printable |-> "1",
       local_bounds |-> LocalBox],
      [objectid |-> "3", transform |-> Shift(MM(120), MM(120)), printable |-> "0",
       local_bounds |-> LocalBox],
      [objectid |-> "4", transform |-> Shift(MM(40), 0), printable |-> "1",
       local_bounds |-> NoBounds] }

\* Assembly-space transforms: the build transform moved 130 mm to the left.
AssembleShifted(items) ==
    [i \in DOMAIN items |->
        [object_id |-> items[i].objectid,
         transform |-> [items[i].transform EXCEPT ![10] = @ - MM(130)]]]

FrameArchive(items, with_assemble, with_project) ==
    << Entry("[Content_Types].xml", "deflated", Blob(1)),
       Entry(MODEL_NAME, "deflated", ModelBody("source", items)) >>
    \o (IF with_assemble
        THEN << Entry(MODEL_SETTINGS_NAME, "deflated",
                      SettingsBody("source", AssembleShifted(items))) >>
        ELSE << >>)
    \o (IF with_project
        THEN << Entry(PROJECT_SETTINGS_NAME, "deflated",
                      [kind |-> "project_settings",
                       config |-> [printable_area |-> Area180]]) >>
        ELSE << >>)

FrameArchives ==
    { FrameArchive(items, wa, wp) :
        items \in SeqsUpTo(FrameItemChoices, MaxItems),
        wa \in BOOLEAN, wp \in BOOLEAN }

\* The listing of the file, and the same listing with the first item's
\* index missing (read as 0) or pointing past the file's build items.
Reindexed(items, k) ==
    IF items = <<>> THEN items
    ELSE [items EXCEPT ![1] = [@ EXCEPT !.build_item_index = k]]

LayoutItemLists(zf, plate_id) ==
    LET listed == list_build_items_3mf(zf, plate_id)
    IN  { listed, Reindexed(listed, 0), Reindexed(listed, Len(BuildItems(zf)) + 1) }

FrameBed == MM(100)

ValidationBounds == { NoBounds, <<MM(20), MM(10), 0, MM(60), MM(30), MM(20)>> }

InitFrame ==
    /\ src_3mf \in FrameArchives
    /\ output_3mf = <<>>
    /\ call = [op |-> "none"]
    /\ outcome = "none"
    /\ profiles = NoProfiles
    /\ invoked = {}
    /\ scene = NoScene
    /\ workdir = {}

NextFrame ==
    \E plate_id \in PlateIds, is_multi \in BOOLEAN, vb \in ValidationBounds :
        /\ ~ListRaises(src_3mf, plate_id)
        /\ \E items \in LayoutItemLists(src_3mf, plate_id) :
              derive_layout_placement_frame(items, is_multi, plate_id,
                                            FrameBed, FrameBed, vb)

SpecFrame == InitFrame /\ [][NextFrame]_vars

Derived == call.op = "_derive_layout_placement_frame"

\* The translation a build item of the source file carries.
PlateTranslation(i) ==
    LET t == BuildItems(src_3mf)[i].transform
    IN  IF t = <<>> THEN <<0, 0, 0>> ELSE <<t[10], t[11], t[12]>>

FileHasPlates == Len(BuildItems(src_3mf)) > 1

\* A plate translation is resolvable for every item in scope.
EveryItemResolvable ==
    /\ FileHasPlates
    /\ \A i \in DOMAIN call.items :
          call.items[i].build_item_index \in 1..Len(BuildItems(src_3mf))

\* Two plates that are neighbours along the axis lie more than 0.9 of the
\* bed apart.
StepInferable(axis, bed) ==
    \E i, j \in DOMAIN BuildItems(src_3mf) :
        /\ PlateTranslation(j)[axis] - PlateTranslation(i)[axis] > bed - bed \div 10
        /\ ~ \E k \in DOMAIN BuildItems(src_3mf) :
                /\ PlateTranslation(i)[axis] < PlateTranslation(k)[axis]
                /\ PlateTranslation(k)[axis] < PlateTranslation(j)[axis]

\* "A grid step is inferable" is read as: the grid's step is inferable on X
\* and on Y.
GridStepInferable ==
    /\ FileHasPlates
    /\ StepInferable(1, call.bed_x)
    /\ StepInferable(2, call.bed_y)

\* C8: with a non-empty item list _derive_layout_placement_frame chooses
\* 'direct' with confidence exact whenever the file is not multi-plate;
\* otherwise 'bambu_plate_translation_offset' exactly when a plate
\* translation is resolvable for every item; otherwise
\* 'bambu_packed_grid_fold' exactly when the grid step is inferable (on both
\* axes); otherwise 'centered_preview_offset'.  When the plate-translation
\* mapping declines it hands back the frame and the items unmodified.
C8_MappingPrecedence ==
    (Derived /\ call.items # <<>>) =>
        /\ scene.frame.mapping =
              IF ~call.is_multi_plate THEN "direct"
              ELSE IF EveryItemResolvable THEN "bambu_plate_translation_offset"
              ELSE IF GridStepInferable THEN "bambu_packed_grid_fold"
              ELSE "centered_preview_offset"
        /\ ~call.is_multi_plate => scene.frame.confidence = "exact"
        /\ (scene.mapped.tried /\ scene.frame.mapping # "bambu_plate_translation_offset")
              => /\ scene.mapped.frame = DefaultFrame(call.is_multi_plate)
                 /\ scene.mapped.items = call.items

\* The plate-translation mapping was tried and declined, and the grid fold
\* was chosen.
C8_Witness ==
    /\ Derived
    /\ call.is_multi_plate
    /\ Len(call.items) = 2
    /\ scene.mapped.tried
    /\ scene.mapped.frame.mapping = "direct"
    /\ scene.frame.mapping = "bambu_packed_grid_fold"
    /\ \A i \in DOMAIN scene.items : scene.items[i].ui_base_pose # <<>>

-----------------------------------------------------------------------------
(* routes_slice.py: the bounds precheck after object transforms *)

\* 1-based position among the assemble_item tags that carry a transform
\* attribute -> the transform, when it has 12 values.
_read_bambu_assemble_item_transforms(zf) ==
    LET tagged == SelectSeq(AssembleItems(zf), LAMBDA tag : tag.transform # <<>>)
    IN  [idx \in {i \in DOMAIN tagged : Len(tagged[i].transform) = 12} |->
            tagged[idx].transform]

\* 1-based position among all assemble_item tags -> object_id, when present.
_read_bambu_assemble_item_object_ids_by_index(zf) ==
    LET assemble == AssembleItems(zf)
    IN  [idx \in {i \in DOMAIN assemble : assemble[i].object_id # NoId} |->
            assemble[idx].object_id]

_read_bambu_assemble_item_transforms_by_object_id(zf) ==
    AssembleByObject(AssembleItems(zf))

\* by_object.get(oid) or by_index.get(idx); <<>> stands for None.
AssembleTransformFor(by_object, by_index, oid, idx) ==
    IF oid \in DOMAIN by_object THEN by_object[oid]
    ELSE IF idx \in DOMAIN by_index THEN by_index[idx]
    ELSE <<>>

\* plate_id 0 stands for None; <<>> stands for a None offset.
_get_bambu_plate_translation_ui_offset(zf, plate_id, bed_x, bed_y) ==
    LET plate_translations == _read_multi_plate_translations_by_id(zf)
    IN  IF plate_id = 0 \/ plate_id \notin DOMAIN plate_translations THEN <<>>
        ELSE << bed_x \div 2 - plate_translations[plate_id][1],
                bed_y \div 2 - plate_translations[plate_id][2] >>

_bounds_from_local_and_transform(it, t3) ==
    IF t3 = <<>> \/ it.local_bounds = NoBounds THEN NoBounds
    ELSE _apply_affine_to_bounds_3x4(it.local_bounds, t3)

TOL == 3                            \* 1e-6 mm

_check_wb_in_volume(wb, vol) ==
    /\ wb # NoBounds
    /\ wb[1] >= -TOL /\ wb[2] >= -TOL /\ wb[3] >= -TOL
    /\ wb[4] <= vol[1] + TOL /\ wb[5] <= vol[2] + TOL /\ wb[6] <= vol[3] + TOL

\* Lines 178-181.
PrintableWithBounds(items) ==
    SelectSeq(items, LAMBDA it : it.printable /\ it.world_bounds # NoBounds)

\* Lines 193-203.
AssembleIdConflict(zf, items_with_bounds, plate_id) ==
    /\ plate_id # 0
    /\ \E i \in DOMAIN items_with_bounds :
          /\ items_with_bounds[i].build_item_index = plate_id
          /\ LET selected_oid == items_with_bounds[i].object_id
                 by_index == _read_bambu_assemble_item_object_ids_by_index(zf)
                 indexed_oid == IF plate_id \in DOMAIN by_index
                                THEN by_index[plate_id] ELSE ""
             IN  /\ selected_oid # ""
                 /\ indexed_oid # ""
                 /\ selected_oid # indexed_oid
                 /\ selected_oid \notin
                        DOMAIN _read_bambu_assemble_item_transforms_by_object_id(zf)

\* The offset that centres the union of a set of bounds on the bed.
CentringOffset(bounds, vol) ==
    << vol[1] \div 2 - (SetMin({b[1] : b \in bounds})
                        + SetMax({b[4] : b \in bounds})) \div 2,
       vol[2] \div 2 - (SetMin({b[2] : b \in bounds})
                        + SetMax({b[5] : b \in bounds})) \div 2 >>

\* Lines 242-302: the four sources of assemble_preview_offset_xy, in order.
ResolvedOffset(zf, baseline, items_with_bounds, plate_id, vol) ==
    LET from_plate == _get_bambu_plate_translation_ui_offset(
                          baseline, plate_id, vol[1], vol[2])
        baseline_by_index == _read_bambu_assemble_item_transforms(baseline)
        baseline_by_object == _read_bambu_assemble_item_transforms_by_object_id(baseline)
        baseline_wbs ==
            { _bounds_from_local_and_transform(
                  items_with_bounds[i],
                  AssembleTransformFor(baseline_by_object, baseline_by_index,
                                       items_with_bounds[i].object_id,
                                       items_with_bounds[i].build_item_index)) :
                  i \in DOMAIN items_with_bounds } \ {NoBounds}
        baseline_items == IF ListRaises(baseline, plate_id) THEN <<>>
                          ELSE list_build_items_3mf(baseline, plate_id)
        baseline_with_bounds == PrintableWithBounds(baseline_items)
        detected == _detect_origin_offset_xy(items_with_bounds, vol[1], vol[2])
    IN  IF from_plate # <<>> THEN from_plate
        ELSE IF plate_id # 0 /\ DOMAIN baseline_by_index # {} /\ baseline_wbs # {}
        THEN CentringOffset(baseline_wbs, vol)
        ELSE IF plate_id # 0 /\ baseline_with_bounds # <<>>
        THEN CentringOffset({baseline_with_bounds[i].world_bounds :
                                i \in DOMAIN baseline_with_bounds}, vol)
        ELSE IF Abs(detected[1]) > TOL \/ Abs(detected[2]) > TOL THEN detected
        ELSE <<>>

\* Line 331: a translation within the bed plus 10 mm on both axes is not a
\* packed one.
t3_normal_range_of(t3, vol) ==
    Abs(t3[10]) <= vol[1] + MM(10) /\ Abs(t3[11]) <= vol[2] + MM(10)

AssembleAlwaysOverrides(t3, vol) == TRUE

AssembleOverrides(t3, vol) == ~t3_normal_range_of(t3, vol)

\* Lines 316-338: the bounds _fully_inside tests.
CheckedBounds(zf, it, vol) ==
    LET t3 == AssembleTransformFor(
                  _read_bambu_assemble_item_transforms_by_object_id(zf),
                  _read_bambu_assemble_item_transforms(zf),
                  it.object_id, it.build_item_index)
        wb_from_assemble == _bounds_from_local_and_transform(it, t3)
    IN  IF t3 # <<>> /\ AssembleOverrides(t3, vol) /\ wb_from_assemble # NoBounds
        THEN wb_from_assemble
        ELSE it.world_bounds

ShiftedXY(wb, offset) ==
    << wb[1] + offset[1], wb[2] + offset[2], wb[3],
       wb[4] + offset[1], wb[5] + offset[2], wb[6] >>

_fully_inside(zf, it, assemble_preview_offset_xy, vol) ==
    LET wb == CheckedBounds(zf, it, vol)
    IN  \/ _check_wb_in_volume(wb, vol)
        \/ /\ assemble_preview_offset_xy # <<>>
           /\ _check_wb_in_volume(ShiftedXY(wb, assemble_preview_offset_xy), vol)

\* The validator's findings on the transformed file are an input:
\* "fits", "build_volume_warnings", or "raises" when it cannot load the file.
\* The result is "pass", "SlicingError" or the validator's exception, with
\* the listed items and the resolved offset.
_enforce_transformed_bounds_or_raise(zf, validation, plate_id, baseline, vol) ==
    LET raises == ListRaises(zf, plate_id)
        items == IF raises THEN <<>> ELSE list_build_items_3mf(zf, plate_id)
        items_with_bounds == PrintableWithBounds(items)
        skipped == \/ raises
                   \/ items_with_bounds = <<>>
                   \/ AssembleIdConflict(zf, items_with_bounds, plate_id)
        offset == IF skipped THEN <<>>
                  ELSE ResolvedOffset(zf, baseline, items_with_bounds, plate_id, vol)
        verdict ==
            IF validation = "raises" THEN "PlateValidationError"
            ELSE IF validation = "build_volume_warnings" THEN "SlicingError"
            ELSE IF skipped THEN "pass"
            ELSE IF \E i \in DOMAIN items_with_bounds :
                       _fully_inside(zf, items_with_bounds[i], offset, vol)
            THEN "pass"
            ELSE "SlicingError"
    IN  [verdict |-> verdict, items |-> items, skipped |-> skipped,
         assemble_preview_offset_xy |-> offset]

BUILD_VOLUME == <<MM(270), MM(270), MM(270)>>

\* slice_upload (plate_id 0) and slice_plate (plate_id >= 1) from the
\* embedded file onwards, for a request with object transforms: apply the
\* transforms, run the precheck against the embedded file as baseline, and
\* invoke the slicer.
slice_with_object_transforms(object_transforms, plate_id, validation) ==
    /\ call.op = "none"
    /\ object_transforms # <<>>
    /\ call' = [op |-> "slice", object_transforms |-> object_transforms,
                plate_id |-> plate_id, validation |-> validation]
    /\ IF ApplyRaises(src_3mf, object_transforms)
       THEN /\ outcome' = "SlicingError"
            /\ output_3mf' = <<>>
            /\ invoked' = invoked
            /\ scene' = [parsed |-> FALSE, checked |-> FALSE]
       ELSE \E transformed \in {ApplyOutput(src_3mf, object_transforms)} :
            \E check \in {_enforce_transformed_bounds_or_raise(
                              transformed, validation, plate_id, src_3mf,
                              BUILD_VOLUME)} :
                /\ output_3mf' = transformed
                /\ outcome' = IF check.verdict = "pass" THEN "ok" ELSE check.verdict
                /\ invoked' = IF check.verdict = "pass"
                              THEN invoked \cup {"slicer"} ELSE invoked
                /\ scene' = [parsed |-> TRUE, checked |-> TRUE,
                             items |-> check.items,
                             skipped |-> check.skipped,
                             assemble_preview_offset_xy |->
                                 check.assemble_preview_offset_xy]
    /\ UNCHANGED <<src_3mf, profiles, workdir>>

FarBox == <<-MM(310), -MM(10), 0, -MM(290), MM(10), MM(20)>>

\* An item on the bed, one around a centre origin, one in packed
\* coordinates, one without geometry, one not printable, and one whose mesh
\* lies far from its own origin.
PrecheckItemChoices ==
    { [objectid |-> "1", transform |-> Shift(MM(50), MM(50)), printable |-> "1",
       local_bounds |-> LocalBox],
      [objectid |-> "2", transform |-> Shift(-MM(20), 0), printable |-> "1",
       local_bounds |-> LocalBox],
      [objectid |-> "3", transform |-> Shift(MM(300), MM(30)), printable |-> "1",
       local_bounds |-> LocalBox],
      [objectid |-> "4", transform |-> Shift(MM(50), MM(50)), printable |-> "1",
       local_bounds |-> NoBounds],
      [objectid |-> "5", transform |-> Shift(MM(60), MM(60)), printable |-> "0",
       local_bounds |-> LocalBox],
      [objectid |-> "6", transform |-> Shift(MM(50), MM(50)), printable |-> "1",
       local_bounds |-> FarBox] }

\* assemble_item tags in build order, all with transform t.  In the
\* "swapped" variant the first tag names another object.
AssembleAt(items, t, swapped) ==
    [i \in DOMAIN items |->
        [object_id |-> IF swapped /\ i = 1 THEN "9" ELSE items[i].objectid,
         transform |-> t]]

PrecheckArchive(items, assemble) ==
    << Entry("[Content_Types].xml", "deflated", Blob(1)),
       Entry(MODEL_NAME, "deflated", ModelBody("source", items)) >>
    \o (IF assemble = <<>> THEN << >>
        ELSE << Entry(MODEL_SETTINGS_NAME, "deflated",
                      SettingsBody("source", assemble)) >>)

\* Without assemble_item tags, with tags in the normal range, and with
\* tags at a packed position.
PrecheckArchives ==
    UNION { { PrecheckArchive(items, <<>>),
              PrecheckArchive(items, AssembleAt(items, Shift(MM(50), MM(50)), FALSE)),
              PrecheckArchive(items, AssembleAt(items, Shift(MM(350), MM(50)), TRUE)) } :
            items \in SeqsUpTo(PrecheckItemChoices, MaxItems) \ {<<>>} }

PrecheckMotions ==
    { [translate_x_mm |-> MM(10),   translate_y_mm |-> -MM(5), rotate_z_deg |-> 90],
      [translate_x_mm |-> -MM(200), translate_y_mm |-> 0,      rotate_z_deg |-> 0] }

\* An index beyond the file's build items makes the request invalid.
PrecheckRequests ==
    { << [build_item_index |-> idx, object_id |-> NoId,
          translate_x_mm |-> m.translate_x_mm, translate_y_mm |-> m.translate_y_mm,
          rotate_z_deg |-> m.rotate_z_deg] >> :
        idx \in 1..MaxItems, m \in PrecheckMotions }

PrecheckPlateIds == 0..MaxItems

Validations == {"fits", "build_volume_warnings", "raises"}

InitPrecheck ==
    /\ src_3mf \in PrecheckArchives
    /\ output_3mf = <<>>
    /\ call = [op |-> "none"]
    /\ outcome = "none"
    /\ profiles = NoProfiles
    /\ invoked = {}
    /\ scene = NoScene
    /\ workdir = {}

NextPrecheck ==
    \E object_transforms \in PrecheckRequests, plate_id \in PrecheckPlateIds,
       validation \in Validations :
        slice_with_object_transforms(object_transforms, plate_id, validation)

SpecPrecheck == InitPrecheck /\ [][NextPrecheck]_vars

Sliced == call.op = "slice"

SlicerInvoked == "slicer" \in invoked

Rejected == outcome = "SlicingError" /\ ~SlicerInvoked

\* Fully inside [0,bed_x] x [0,bed_y] x [0,height], tolerance 1e-6.
InBed(wb) ==
    /\ wb # NoBounds
    /\ \A axis \in 1..3 :
          /\ wb[axis] >= -3
          /\ wb[axis + 3] <= BUILD_VOLUME[axis] + 3

\* The printable items of the transformed archive that have bounds.
Candidates ==
    IF scene.parsed /\ scene.checked
    THEN { scene.items[i] : i \in { j \in DOMAIN scene.items :
              scene.items[j].printable /\ scene.items[j].world_bounds # NoBounds } }
    ELSE {}

\* The assemble transform the transformed archive holds for an item: the
\* one keyed by its object id, else the one at its index; <<>> when none.
AssembleOf(it) ==
    AssembleTransformFor(
        _read_bambu_assemble_item_transforms_by_object_id(output_3mf),
        _read_bambu_assemble_item_transforms(output_3mf),
        it.object_id, it.build_item_index)

InNormalRange(t) ==
    /\ Abs(t[10]) <= BUILD_VOLUME[1] + MM(10)
    /\ Abs(t[11]) <= BUILD_VOLUME[2] + MM(10)

AssembleBounds(it) == _apply_affine_to_bounds_3x4(it.local_bounds, AssembleOf(it))

Moved(wb, offset) ==
    [i \in 1..6 |-> IF i \in {1, 4} THEN wb[i] + offset[1]
                    ELSE IF i \in {2, 5} THEN wb[i] + offset[2]
                    ELSE wb[i]]

OffsetResolved == scene.assemble_preview_offset_xy # <<>>

\* The three placements as the contract lists them.
InsideAsStated(it) ==
    LET normal == AssembleOf(it) # <<>> /\ InNormalRange(AssembleOf(it))
    IN  \/ InBed(it.world_bounds)
        \/ normal /\ InBed(AssembleBounds(it))
        \/ /\ OffsetResolved
           /\ \/ InBed(Moved(it.world_bounds, scene.assemble_preview_offset_xy))
              \/ normal /\ InBed(Moved(AssembleBounds(it),
                                       scene.assemble_preview_offset_xy))

EffectiveBounds(it) ==
    IF AssembleOf(it) # <<>> /\ ~InNormalRange(AssembleOf(it))
    THEN AssembleBounds(it)
    ELSE it.world_bounds

InsideAsChecked(it) ==
    \/ InBed(EffectiveBounds(it))
    \/ /\ OffsetResolved
       /\ InBed(Moved(EffectiveBounds(it), scene.assemble_preview_offset_xy))

\* The cases in which the check cannot decide and lets the request through.
Undecidable ==
    \/ call.plate_id > Len(BuildItems(output_3mf))
    \/ Candidates = {}
    \/ AssembleIdConflict(output_3mf, PrintableWithBounds(scene.items), call.plate_id)

-----------------------------------------------------------------------------
(* Settings documents with arrays and tower positions: inputs of embed_profiles *)

SettingsPrinterProfile ==
    [name |-> S("Snapmaker U1"), printable_area |-> Area270,
     bed_exclude_area |-> L(<<"0x0">>), nozzle_diameter |-> L(<<"0.4">>),
     upward_compatible_machine |-> L(<<>>)]

SettingsProcessProfiles ==
    { [name |-> S("0.20mm Standard"), layer_height |-> S("0.2"),
       prime_tower_width |-> S("35"),
       compatible_printers |-> L(<<"Snapmaker U1", "Snapmaker U1 (0.6 nozzle)">>)],
      [name |-> S("0.20mm Standard"), layer_height |-> S("0.2"),
       prime_tower_width |-> S("60"), prime_tower_brim_width |-> S("3.5")] }

SettingsProfileSets ==
    { [loaded |-> TRUE, printer |-> SettingsPrinterProfile, process |-> pc,
       filament |-> FilamentProfile] : pc \in SettingsProcessProfiles }

\* the vendor's purge volumes for two filaments
VendorFlush ==
    [flush_volumes_matrix |-> L(<<"0", "100", "100", "0">>),
     flush_volumes_vector |-> L(<<"140", "140", "140", "140">>),
     filament_start_gcode |-> L(<<"M142 S36", "M142 S36", "M142 S36">>),
     nozzle_temperature |-> L(<<"220", "225", "230">>)]

VendorSettingsChoices ==
    LET base == Update(VendorSettings, VendorFlush)
    IN  { base,
          Update(base, [wipe_tower_x |-> L(<<"15", "165">>),
                        wipe_tower_y |-> L(<<"15", "165">>)]),
          Update(base, [wipe_tower_x |-> L(<<"15", "165">>),
                        wipe_tower_y |-> S("5.000")]),
          Update(base, [wipe_tower_x |-> S("15"), wipe_tower_y |-> S("265.000")]) }

SettingsFilamentChoices ==
    { [nozzle_temperature |-> L(<<"210">>)],
      [nozzle_temperature |-> L(<<"210", "215">>),
       filament_colour |-> L(<<"#111111", "#222222">>),
       flush_volumes_matrix |-> L(<<"0">>)] }

\* routes_slice.py 1463-1466: the tower position of the request, as text with
\* three decimals
SettingsOverrides ==
    { EmptyConfig,
      [wipe_tower_x |-> S("5.000"), wipe_tower_y |-> S("265.000")],
      [wipe_tower_x |-> S("135.000")] }

SettingsArchives ==
    { EmbedArchive(paint, settings, project, <<>>) :
        paint \in BOOLEAN,
        settings \in {<<>>} \cup
            { << Entry(MODEL_SETTINGS_NAME, "deflated", ms) >> :
                ms \in ModelSettingsChoices },
        project \in {<<>>} \cup
            { << Entry(PROJECT_SETTINGS_NAME, "deflated",
                       [kind |-> "project_settings", config |-> v]) >> :
                v \in VendorSettingsChoices } }

InitSettings ==
    /\ src_3mf \in SettingsArchives
    /\ output_3mf = <<>>
    /\ call = [op |-> "none"]
    /\ outcome = "none"
    /\ profiles \in SettingsProfileSets
    /\ invoked = {}
    /\ scene = NoScene
    /\ workdir = {}

NextSettings ==
    \E filament_settings \in SettingsFilamentChoices,
       overrides \in SettingsOverrides,
       requested_filament_count \in 1..MaxFilaments,
       is_bambu \in BOOLEAN, has_multi_assignments \in BOOLEAN,
       has_layer_changes \in BOOLEAN :
        embed_profiles(filament_settings, overrides, requested_filament_count,
                       <<>>, is_bambu, has_multi_assignments,
                       has_layer_changes, 0, "none")

SpecSettings == InitSettings /\ [][NextSettings]_vars

-----------------------------------------------------------------------------
(* Claims about the written settings document *)

\* the slot count the path resolved, and the document before its arrays were
\* padded and normalized
ResolvedSlots ==
    IF Preserved
    THEN PreserveSlots(src_3mf, call.requested_filament_count)
    ELSE MergedSlots(profiles, call.filament_settings, call.overrides,
                     call.requested_filament_count)

BeforeNormalization ==
    IF Preserved
    THEN PreserveUnnormalized(src_3mf, profiles, call.filament_settings,
                              call.overrides, call.requested_filament_count)
    ELSE MergedUnnormalized(profiles, call.filament_settings, call.overrides)

NonEmptyList(config, k) == IsList(config[k]) /\ config[k].l # <<>>

PerFilamentLength(config, k) == Len(config[k].l) = ResolvedSlots

ShapedLength(config, k) ==
    /\ k = "flush_volumes_matrix" =>
           Len(config[k].l) = ResolvedSlots * ResolvedSlots
    /\ k = "flush_volumes_vector" => Len(config[k].l) = 2 * ResolvedSlots

ExemptLengthKept(config, k) ==
    /\ k \in DOMAIN BeforeNormalization
    /\ IsList(BeforeNormalization[k])
    /\ Len(config[k].l) = Len(BeforeNormalization[k].l)

\* C11 as stated: in the written settings document with resolved slot count
\* N, every non-empty list under a non-exempt key has length N,
\* flush_volumes_matrix has length N*N and flush_volumes_vector 2*N, and every
\* other exempt key keeps the length it had before array normalization.
C11_ArraysNormalized ==
    Embedded =>
        \A k \in DOMAIN WrittenSettings :
            NonEmptyList(WrittenSettings, k) =>
                IF k \in {"flush_volumes_matrix", "flush_volumes_vector"}
                THEN ShapedLength(WrittenSettings, k)
                ELSE IF k \in NormalizeSkip
                THEN ExemptLengthKept(WrittenSettings, k)
                ELSE PerFilamentLength(WrittenSettings, k)

TowerKeys == {"wipe_tower_x", "wipe_tower_y"}

SourceCarriesArray(k) ==
    k \in DOMAIN SourceSettings(src_3mf) /\ IsList(SourceSettings(src_3mf)[k])

ValuesOf(v) == IF IsList(v) THEN {v.l[i] : i \in DOMAIN v.l} ELSE {v.s}

InsideBedWithMargin(config, text) ==
    /\ IsNumber(text)
    /\ half_span_of(config) <= FloatValue[text]
    /\ FloatValue[text] <= BED_SIZE_MM - half_span_of(config)

\* C12 as stated: in the written settings document, on both paths, when the
\* source settings carry no wipe_tower_x / wipe_tower_y array every tower
\* position present lies within [h, bed - h]; when they carry one of the two
\* keys as an array, that key is written as the same array.
C12_TowerPosition ==
    Embedded =>
        /\ (\A k \in TowerKeys : ~SourceCarriesArray(k)) =>
               \A k \in TowerKeys \cap DOMAIN WrittenSettings :
                   \A text \in ValuesOf(WrittenSettings[k]) :
                       InsideBedWithMargin(WrittenSettings, text)
        /\ \A k \in TowerKeys :
               SourceCarriesArray(k) =>
                   /\ k \in DOMAIN WrittenSettings
                   /\ WrittenSettings[k] = SourceSettings(src_3mf)[k]



-----------------------------------------------------------------------------
(* Vendor files with per-layer tool changes and modifier parts *)

\* The probes embed_profiles runs when no precomputed value is passed.
_is_bambu_file(zf) ==
    namelist(zf) \cap {MODEL_SETTINGS_NAME, "Metadata/slice_info.config",
                       "Metadata/filament_sequence.json"} # {}

_has_multi_extruder_assignments(zf) ==
    /\ MODEL_SETTINGS_NAME \in namelist(zf)
    /\ LET raw == zf[read(zf, MODEL_SETTINGS_NAME)].body.extruder
       IN  Cardinality({raw[i] : i \in DOMAIN raw}) > 1

\* a <layer type="2"> under any plate
_has_layer_tool_changes(zf) ==
    /\ CUSTOM_GCODE_NAME \in namelist(zf)
    /\ LET body == zf[read(zf, CUSTOM_GCODE_NAME)].body
       IN  /\ body.kind = "custom_gcode"
           /\ \E i \in DOMAIN body.plates :
                  \E j \in DOMAIN body.plates[i].layers :
                      body.plates[i].layers[j] = "2"

\* custom_gcode_per_layer.xml: per plate, the types of its layer entries
\* ("2" is a tool change, "1" a pause)
CustomGcodeChoices ==
    { << [id |-> 1, layers |-> <<"2">>], [id |-> 2, layers |-> <<"1", "2">>] >>,
      << [id |-> 2, layers |-> <<"2", "2">>] >>,
      << [id |-> 1, layers |-> <<"1">>] >> }

LayerExtras ==
    { <<>>,
      << Entry("3D/Objects/object_1.model", "deflated",
               [kind |-> "submodel", type_other |-> TRUE]) >>,
      << Entry("3D/Objects/object_1.model", "deflated",
               [kind |-> "submodel", type_other |-> FALSE]) >> }

LayerItemChoices ==
    { EmbedItems,
      << [objectid |-> "1", transform |-> T50, printable |-> "1"] >> }

LayerArchives ==
    { << Entry("[Content_Types].xml", "deflated", Blob(1)),
         Entry(MODEL_NAME, "deflated",
               [kind |-> "model", ser |-> "source", items |-> items,
                paint_color |-> FALSE]),
         Entry(MODEL_SETTINGS_NAME, "deflated", ms) >>
      \o gcode \o extras :
        items \in LayerItemChoices,
        ms \in ModelSettingsChoices,
        gcode \in {<<>>} \cup
            { << Entry(CUSTOM_GCODE_NAME, "deflated",
                       [kind |-> "custom_gcode", plates |-> plates]) >> :
                plates \in CustomGcodeChoices },
        extras \in LayerExtras }

\* None, the plates of the files above, and a plate none of them has
PlateSelections == 0..3

Failures ==
    {"none", "_strip_non_printable_items", "_strip_modifier_parts", "trimesh",
     "_copy_and_inject_settings"}

InitLayers ==
    /\ src_3mf \in LayerArchives
    /\ output_3mf = <<>>
    /\ call = [op |-> "none"]
    /\ outcome = "none"
    /\ profiles \in ProfileSets
    /\ invoked = {}
    /\ scene = NoScene
    /\ workdir = {}

NextLayers ==
    \E requested_filament_count \in 1..MaxFilaments,
       bambu_plate_id \in PlateSelections, failure \in Failures :
        embed_profiles([nozzle_temperature |-> L(<<"210">>)], EmptyConfig,
                       requested_filament_count, <<>>,
                       _is_bambu_file(src_3mf),
                       _has_multi_extruder_assignments(src_3mf),
                       _has_layer_tool_changes(src_3mf),
                       bambu_plate_id, failure)

SpecLayers == InitLayers /\ [][NextLayers]_vars

-----------------------------------------------------------------------------
(* Claims about tool-change metadata and temporary archives *)

SourcePlates == src_3mf[read(src_3mf, CUSTOM_GCODE_NAME)].body.plates

SelectedPlateExists ==
    /\ call.bambu_plate_id # 0
    /\ CUSTOM_GCODE_NAME \in namelist(src_3mf)
    /\ \E i \in DOMAIN SourcePlates : SourcePlates[i].id = call.bambu_plate_id

CustomGcodeMembers ==
    {j \in DOMAIN output_3mf : output_3mf[j].filename = CUSTOM_GCODE_NAME}

PlateScoped(plates) ==
    /\ Len(plates) = 1
    /\ plates[1].id = 1
    /\ \E i \in DOMAIN SourcePlates :
        /\ SourcePlates[i].id = call.bambu_plate_id
        /\ plates[1].layers = SourcePlates[i].layers

\* C13 as stated: for a vendor file with per-layer tool changes and a
\* selected plate p present in custom_gcode_per_layer.xml, the written
\* archive holds exactly one custom_gcode_per_layer.xml, with only the entries
\* of plate p renumbered as plate 1, and _inject_custom_gcode was reached.
C13_ToolChangesReinjected ==
    (/\ Embedded
     /\ call.is_bambu /\ call.has_layer_changes
     /\ _has_layer_tool_changes(src_3mf)
     /\ SelectedPlateExists) =>
        /\ Cardinality(CustomGcodeMembers) = 1
        /\ \A j \in CustomGcodeMembers : PlateScoped(output_3mf[j].body.plates)
        /\ "_inject_custom_gcode" \in invoked

\* C18 as stated: when embed_profiles has returned or raised, whichever step
\* failed, none of the temporary archives it created still exists.
C18_NoTemporaryArchiveLeft ==
    call.op = "embed_profiles" => workdir = {}



-----------------------------------------------------------------------------
(* gcode_image_renderer: the G-code parser and the segment cap *)

\* A G-code line after the comment has been cut off: the command word and
\* the axis words COORD_RE finds on it (T lines keep their number under n).
\* ";" stands for a blank or comment-only line.
NoWords == [k \in {} |-> 0]

GLine(cmd, words) == [cmd |-> cmd, words |-> words]

Has(words, axis) == axis \in DOMAIN words

XY_EPSILON == ONE \div 1000        \* 0.001 mm
TRAVEL_DECIMATE == 10
\* 2,000,000 in the source; scaled down so that the cap is reached
MAX_SEGMENTS == 3

ParserStart ==
    [x |-> 0, y |-> 0, z |-> 0, e |-> 0,
     absolute_pos |-> TRUE, absolute_ext |-> FALSE,
     current_tool |-> 0, max_z |-> 0, travel_count |-> 0,
     extrusions |-> <<>>, travels |-> <<>>,
     consumed |-> <<>>, segments |-> <<>>]

IsMoveCommand(cmd) == cmd \in {"G0", "G1", "G2", "G3"}

AlwaysAbsolute(words, axis, tracked, absolute) ==
    IF Has(words, axis) THEN words[axis] ELSE tracked

\* float(coords[axis]) if absolute else tracked + float(coords[axis])
MoveAxis(words, axis, tracked, absolute) ==
    IF ~Has(words, axis) THEN tracked
    ELSE IF absolute THEN words[axis]
    ELSE tracked + words[axis]

ResetAxis(words, axis, tracked) ==
    IF Has(words, axis) THEN words[axis] ELSE tracked

\* The body of the loop over the lines of the file.
ParseLine(st, line) ==
    LET cmd == line.cmd
        words == line.words
    IN  IF cmd = ";" THEN st
        ELSE IF cmd = "T" THEN [st EXCEPT !.current_tool = words.n]
        ELSE IF cmd = "G90" THEN [st EXCEPT !.absolute_pos = TRUE]
        ELSE IF cmd = "G91" THEN [st EXCEPT !.absolute_pos = FALSE]
        ELSE IF cmd = "M82" THEN [st EXCEPT !.absolute_ext = TRUE]
        ELSE IF cmd = "M83" THEN [st EXCEPT !.absolute_ext = FALSE]
        ELSE IF cmd = "G92" THEN
            [st EXCEPT !.x = ResetAxis(words, "X", @),
                       !.y = ResetAxis(words, "Y", @),
                       !.z = ResetAxis(words, "Z", @),
                       !.e = ResetAxis(words, "E", @)]
        ELSE IF ~IsMoveCommand(cmd) THEN st
        ELSE
            LET x == MoveAxis(words, "X", st.x, st.absolute_pos)
                y == MoveAxis(words, "Y", st.y, st.absolute_pos)
                z == MoveAxis(words, "Z", st.z, st.absolute_pos)
                e == MoveAxis(words, "E", st.e, st.absolute_ext)
                moved == [st EXCEPT !.x = x, !.y = y, !.z = z, !.e = e]
                segment == <<st.x, st.y, st.z, x, y, z, st.current_tool>>
                travel_count == st.travel_count + 1
            IN  IF Abs(x - st.x) < XY_EPSILON /\ Abs(y - st.y) < XY_EPSILON
                THEN moved
                ELSE IF e > st.e
                THEN [moved EXCEPT !.extrusions = Append(@, segment),
                                   !.max_z = IF z > @ THEN z ELSE @]
                ELSE [moved EXCEPT
                        !.travel_count = travel_count,
                        !.travels = IF travel_count % TRAVEL_DECIMATE = 0
                                    THEN Append(@, segment) ELSE @]

\* segments[::step]
EveryNth(seq, step) ==
    [i \in 1..((Len(seq) + step - 1) \div step) |-> seq[(i - 1) * step + 1]]

CappedSegments(segments) ==
    IF Len(segments) > MAX_SEGMENTS
    THEN EveryNth(segments, Len(segments) \div MAX_SEGMENTS + 1)
    ELSE segments

\* _parse_segments reads one more line of the file.
_parse_segments(line) ==
    /\ outcome = "none"
    /\ scene' = [ParseLine(scene, line) EXCEPT !.consumed = Append(@, line)]
    /\ call' = [op |-> "_parse_segments", line |-> line]
    /\ UNCHANGED <<src_3mf, output_3mf, outcome, profiles, invoked, workdir>>

\* The file has ended: render_gcode_image caps the extrusion segments and
\* draws them over the travels (or draws the placeholder when there are none).
render_gcode_image ==
    /\ outcome = "none"
    /\ scene' = [scene EXCEPT !.segments = CappedSegments(scene.extrusions)]
    /\ call' = [op |-> "render_gcode_image"]
    /\ outcome' = IF scene.extrusions = <<>> THEN "placeholder" ELSE "ok"
    /\ UNCHANGED <<src_3mf, output_3mf, profiles, invoked, workdir>>

InitGcode ==
    /\ src_3mf = <<>>
    /\ output_3mf = <<>>
    /\ call = [op |-> "none"]
    /\ outcome = "none"
    /\ profiles = NoProfiles
    /\ invoked = {}
    /\ scene = ParserStart
    /\ workdir = {}

MaxLines == 3

TINY == ONE \div 2000              \* 0.0005 mm, below XY_EPSILON

ParseLines ==
    { GLine(";", NoWords), GLine("G28", NoWords),
      GLine("G90", NoWords), GLine("G91", NoWords),
      GLine("M82", NoWords), GLine("M83", NoWords),
      GLine("T", [n |-> 1]), GLine("T", [n |-> 2]),
      GLine("G92", [E |-> 0]), GLine("G92", [X |-> MM(5), Z |-> MM(2)]),
      GLine("G0", [X |-> MM(10), Y |-> MM(10)]),
      GLine("G1", [X |-> MM(10), E |-> MM(1)]),
      GLine("G1", [Y |-> MM(10), E |-> MM(2)]),
      GLine("G1", [X |-> MM(10), Y |-> 0, Z |-> MM(1), E |-> -MM(1)]),
      GLine("G1", [X |-> TINY, E |-> MM(1)]),
      GLine("G1", [Z |-> MM(1), E |-> MM(1)]),
      GLine("G2", [X |-> 0, Y |-> MM(10), E |-> MM(1)]),
      GLine("G3", [X |-> MM(10), Y |-> MM(10)]) }

NextParse ==
    \/ /\ Len(scene.consumed) < MaxLines
       /\ \E line \in ParseLines : _parse_segments(line)
    \/ render_gcode_image

SpecParse == InitGcode /\ [][NextParse]_vars

\* A file of moves back and forth along X, with and without extrusion.
MaxExtrusionMoves == 4
MaxTravelMoves == 21

RasterLines ==
    { GLine("G1", [X |-> MM(10), E |-> MM(1)]),
      GLine("G1", [X |-> 0, E |-> MM(1)]),
      GLine("G1", [X |-> MM(10)]),
      GLine("G1", [X |-> 0]) }

NextRaster ==
    \/ \E line \in RasterLines :
        /\ Has(line.words, "X") /\ line.words.X # scene.x
        /\ IF Has(line.words, "E")
           THEN Len(scene.extrusions) < MaxExtrusionMoves
           ELSE scene.travel_count < MaxTravelMoves
        /\ _parse_segments(line)
    \/ render_gcode_image

SpecRaster == InitGcode /\ [][NextRaster]_vars

-----------------------------------------------------------------------------
(* Claims about the G-code parser and the segment cap *)

RECURSIVE LatestTool(_)
LatestTool(lines) ==
    IF lines = <<>> THEN 0
    ELSE IF lines[Len(lines)].cmd = "T" THEN lines[Len(lines)].words.n
    ELSE LatestTool(SubSeq(lines, 1, Len(lines) - 1))

Displaced(before, after) ==
    \/ Abs(after.x - before.x) >= XY_EPSILON
    \/ Abs(after.y - before.y) >= XY_EPSILON

SegmentOf(before, after) ==
    <<before.x, before.y, before.z, after.x, after.y, after.z,
      LatestTool(before.consumed)>>

EmitsNothing(before, after) ==
    /\ after.extrusions = before.extrusions
    /\ after.travels = before.travels
    /\ after.travel_count = before.travel_count

ExceedsTrackedE(line, before) ==
    /\ Has(line.words, "E")
    /\ IF before.absolute_ext THEN line.words.E > before.e
                              ELSE line.words.E > 0

MoveClassified(line, before, after) ==
    IF ~Displaced(before, after) THEN EmitsNothing(before, after)
    ELSE /\ (after.e > before.e) <=> ExceedsTrackedE(line, before)
         /\ IF after.e > before.e
            THEN /\ after.extrusions =
                        Append(before.extrusions, SegmentOf(before, after))
                 /\ after.travels = before.travels
                 /\ after.travel_count = before.travel_count
            ELSE /\ after.extrusions = before.extrusions
                 /\ after.travel_count = before.travel_count + 1
                 /\ after.travels \in
                        {before.travels,
                         Append(before.travels, SegmentOf(before, after))}

OnlyChanges(before, after, fields) ==
    \A f \in (DOMAIN before) \ (fields \cup {"consumed"}) : after[f] = before[f]

ModesAndResets(line, before, after) ==
    /\ line.cmd \in {"G90", "G91"} =>
        /\ OnlyChanges(before, after, {"absolute_pos"})
        /\ after.absolute_pos = (line.cmd = "G90")
    /\ line.cmd \in {"M82", "M83"} =>
        /\ OnlyChanges(before, after, {"absolute_ext"})
        /\ after.absolute_ext = (line.cmd = "M82")
    /\ line.cmd = "G92" =>
        /\ OnlyChanges(before, after,
                       {IF a = "X" THEN "x" ELSE IF a = "Y" THEN "y"
                        ELSE IF a = "Z" THEN "z" ELSE "e" :
                            a \in DOMAIN line.words})
        /\ Has(line.words, "X") => after.x = line.words.X
        /\ Has(line.words, "Y") => after.y = line.words.Y
        /\ Has(line.words, "Z") => after.z = line.words.Z
        /\ Has(line.words, "E") => after.e = line.words.E
        /\ EmitsNothing(before, after)

ExtrusionMoves == Len(scene.extrusions)

\* C15 as stated: once the file is rendered, floor(T/10) travel segments are
\* retained, every extrusion segment is retained while their number is within
\* the cap, and the segments retained for rendering, extrusion plus travel,
\* never number more than the cap.
C15_RetainedWithinCap ==
    call.op = "render_gcode_image" =>
        /\ Len(scene.travels) = scene.travel_count \div TRAVEL_DECIMATE
        /\ ExtrusionMoves <= MAX_SEGMENTS => scene.segments = scene.extrusions
        /\ Len(scene.segments) + Len(scene.travels) <= MAX_SEGMENTS



-----------------------------------------------------------------------------
(* routes_slice: slicer runs of one job and the status the request ends with *)

\* Texts are lower-cased word sequences; `needle in text` is a search for a
\* run of consecutive words.
Contains(text, needle) ==
    \E i \in 1..(Len(text) - Len(needle) + 1) :
        SubSeq(text, i, i + Len(needle) - 1) = needle

STDERR_CONFLICT == <<"gcode", "path", "conflicts", "found", "between", "wipetower", "and", "object">>
STDERR_RESULT_CONFLICT == <<"found", "slicing", "result", "conflict">>
STDERR_SEGFAULT == <<"segmentation", "fault">>
STDERR_OTHER == <<"nothing", "to", "be", "sliced">>

SlicerSuccess == [success |-> TRUE, stderr |-> <<>>]

SlicerResults ==
    {SlicerSuccess} \cup
    { [success |-> FALSE, stderr |-> e] :
        e \in {STDERR_CONFLICT, STDERR_RESULT_CONFLICT, STDERR_SEGFAULT,
               STDERR_OTHER} }

_is_wipe_tower_conflict(result) ==
    \/ Contains(result.stderr, <<"gcode", "path", "conflicts", "found", "between", "wipetower">>)
    \/ Contains(result.stderr, <<"found", "slicing", "result", "conflict">>)
    \/ /\ Contains(result.stderr, <<"calc_exclude_triangles">>)
       /\ Contains(result.stderr, <<"nothing", "to", "be", "sliced">>)

\* The messages of the SlicingErrors a job can raise.
InvalidIndexMessage ==
    <<"invalid", "object", "transforms", "invalid", "build_item_index", "values">>
ObjectIdMismatchMessage ==
    <<"invalid", "object", "transforms", "build_item_index", "object_id", "mismatch">>
NoPrintableInsideMessage ==
    <<"object", "transforms", "place", "model", "so", "no", "printable",
      "object", "is", "fully", "inside", "the", "print", "volume">>
SingleToolMessage ==
    <<"multicolour", "requested", "but", "slicer", "produced", "single-tool",
      "g-code", "t0", "only">>
UnstableMessage ==
    <<"multicolour", "slicing", "is", "unstable", "for", "this", "model", "in",
      "snapmaker", "orca", "slicer", "crash">>
SlicerFailedMessage(result) == <<"orca", "slicer", "failed">> \o result.stderr

ClientErrorPhrases(endpoint) ==
    { <<"unstable", "for", "this", "model">>,
      <<"invalid", "object", "transforms">>,
      <<"outside", "build", "volume">>,
      <<"fully", "inside", "the", "print", "volume">> }
    \cup (IF endpoint = "slice_upload"
          THEN {<<"do", "not", "fit", "build", "plate">>} ELSE {})

\* except SlicingError: the job row is marked failed and the status chosen
\* from the text of the error.
SlicingErrorResponse(endpoint, filaments, message) ==
    LET err_text == IF filaments > 1 /\ Contains(message, STDERR_SEGFAULT)
                    THEN UnstableMessage ELSE message
    IN  [status_code |-> IF \E phrase \in ClientErrorPhrases(endpoint) :
                                Contains(err_text, phrase)
                         THEN 400 ELSE 500,
         job_status |-> "failed",
         err_text |-> err_text]

NoJob == [pc |-> "none"]

Raised(job, failure, response) ==
    [job EXCEPT !.pc = "raised", !.failure = failure,
                !.status_code = response.status_code,
                !.job_status = response.job_status]

RaisedSlicingError(job, failure, message) ==
    Raised(job, failure,
           SlicingErrorResponse(job.endpoint, job.filaments, message))

scale_active_of(scale_percent) == scale_percent # 100

RunSlicer(job, prime_tower, result) ==
    [job EXCEPT !.result = result,
                !.runs = Append(@, [enable_prime_tower |-> prime_tower,
                                    after |-> job.result])]

\* The request up to the first slicer run.  precheck is what the stages
\* before the slicer find: "plate" (slice_plate only: the plate is not in the
\* file, found before the job row exists), "index" / "object_id" (raised by
\* apply_object_transforms_to_3mf), "inside" (raised by
\* _enforce_transformed_bounds_or_raise) or "none".
begin_slice_job(endpoint, scale_percent, need_prime_tower, filaments, precheck, result) ==
    /\ scene = NoJob
    /\ precheck = "plate" => endpoint = "slice_plate"
    /\ call' = [op |-> endpoint, scale_percent |-> scale_percent,
                need_prime_tower |-> need_prime_tower, filaments |-> filaments]
    /\ LET job == [pc |-> "running", endpoint |-> endpoint,
                   scale_percent |-> scale_percent,
                   need_prime_tower |-> need_prime_tower,
                   filaments |-> filaments,
                   result |-> [success |-> TRUE, stderr |-> <<"not", "run">>],
                   runs |-> <<>>, failure |-> "none",
                   status_code |-> 0, job_status |-> "processing"]
       IN  scene' =
            CASE precheck = "plate" ->
                    Raised(job, "plate", [status_code |-> 404, job_status |-> "none"])
              [] precheck = "index" ->
                    RaisedSlicingError(job, "index", InvalidIndexMessage)
              [] precheck = "object_id" ->
                    RaisedSlicingError(job, "object_id", ObjectIdMismatchMessage)
              [] precheck = "inside" ->
                    RaisedSlicingError(job, "inside", NoPrintableInsideMessage)
              [] OTHER ->
                    [RunSlicer(job, need_prime_tower, result)
                        EXCEPT !.pc = "native_scale_fallback"]
    /\ invoked' = IF precheck = "none" THEN invoked \cup {"slicer"} ELSE invoked
    /\ outcome' = IF precheck = "none" THEN outcome ELSE "HTTPException"
    /\ UNCHANGED <<src_3mf, output_3mf, profiles, workdir>>

\* One of the conditional re-runs that follow the first slicer run.
RetryStage(pc, next_pc, condition, prime_tower, result) ==
    /\ scene.pc = pc
    /\ scene' = IF condition
                THEN [RunSlicer(scene, prime_tower, result) EXCEPT !.pc = next_pc]
                ELSE [scene EXCEPT !.pc = next_pc]
    /\ call' = [call EXCEPT !.op = pc]
    /\ UNCHANGED <<src_3mf, output_3mf, outcome, profiles, invoked, workdir>>

native_scale_fallback(result) ==
    RetryStage("native_scale_fallback", "full_scale_retry",
               ~scene.result.success /\ scale_active_of(scene.scale_percent),
               scene.need_prime_tower, result)

full_scale_retry(result) ==
    RetryStage("full_scale_retry", "wipe_tower_retry",
               /\ ~scene.result.success
               /\ scale_active_of(scene.scale_percent)
               /\ scene.scale_percent < 100,
               scene.need_prime_tower, result)

wipe_tower_retry(result) ==
    RetryStage("wipe_tower_retry", "finish",
               /\ ~scene.result.success
               /\ scene.need_prime_tower
               /\ _is_wipe_tower_conflict(scene.result),
               FALSE, result)

\* After the last run: the slicer's failure is raised, or the G-code is
\* checked for the tools it uses and the job completes.
finish_slice_job(used_tools) ==
    /\ scene.pc = "finish"
    /\ call' = [call EXCEPT !.op = "finish"]
    /\ scene' =
        IF ~scene.result.success
        THEN RaisedSlicingError(scene, "slicer", SlicerFailedMessage(scene.result))
        ELSE IF /\ scene.endpoint = "slice_upload"
                /\ scene.filaments > 1
                /\ \A t \in used_tools : t = "T0"
        THEN RaisedSlicingError(scene, "t0_only", SingleToolMessage)
        ELSE [scene EXCEPT !.pc = "returned", !.status_code = 200,
                           !.job_status = "completed"]
    /\ outcome' = IF scene'.pc = "raised" THEN "HTTPException" ELSE "ok"
    /\ UNCHANGED <<src_3mf, output_3mf, profiles, invoked, workdir>>

InitJob ==
    /\ src_3mf = <<>>
    /\ output_3mf = <<>>
    /\ call = [op |-> "none"]
    /\ outcome = "none"
    /\ profiles = NoProfiles
    /\ invoked = {}
    /\ scene = NoJob
    /\ workdir = {}

ScalePercents == {50, 100, 150}

Prechecks == {"none", "plate", "index", "object_id", "inside"}

NextJob ==
    \/ \E endpoint \in {"slice_upload", "slice_plate"},
          scale_percent \in ScalePercents, need_prime_tower \in BOOLEAN,
          filaments \in 1..MaxFilaments, precheck \in Prechecks,
          result \in SlicerResults :
            begin_slice_job(endpoint, scale_percent, need_prime_tower,
                            filaments, precheck, result)
    \/ \E result \in SlicerResults : native_scale_fallback(result)
    \/ \E result \in SlicerResults : full_scale_retry(result)
    \/ \E result \in SlicerResults : wipe_tower_retry(result)
    \/ \E used_tools \in {{"T0"}, {"T0", "T1"}} : finish_slice_job(used_tools)

SpecJob == InitJob /\ [][NextJob]_vars

-----------------------------------------------------------------------------
(* Claims about the slice job *)

JobStarted == scene.pc # "none"

\* C16 as stated: within one job a slicer run that follows a failed run
\* happens only when prime tower was enabled and the failed run's output
\* matches the wipe-tower-conflict signature, and it runs with the prime tower
\* disabled; the slicer is invoked at most twice.
C16_OnlyWipeTowerRetry ==
    JobStarted =>
        /\ Len(scene.runs) <= 2
        /\ \A i \in 2..Len(scene.runs) :
            /\ scene.need_prime_tower
            /\ _is_wipe_tower_conflict(scene.runs[i].after)
            /\ ~scene.runs[i].enable_prime_tower

ValidationFailures == {"plate", "index", "object_id", "inside", "t0_only"}

\* C17 as stated: a request that ends in a validation failure (no printable
\* object inside the bed, index out of range, object id mismatch, multicolour
\* requested but only T0 used) ends with a 4xx status and a job recorded as
\* failed.
C17_ValidationFailuresAreClientErrors ==
    (JobStarted /\ scene.pc = "raised" /\ scene.failure \in ValidationFailures) =>
        /\ scene.status_code \in 400..499
        /\ scene.job_status = "failed"



-----------------------------------------------------------------------------
(* multi_plate_parser: bounds and geometry of component-based objects *)

\* resources_by_model: model path -> object id -> object.  An object has a
\* type, a mesh (present or not) and a list of components; a component names
\* an object id (0: no objectid attribute), optionally the path of another
\* model file ("" for the same file) and a transform.
SUB_MODEL_NAME == "3D/Objects/object_1.model"

NoMesh == [present |-> FALSE, vertices |-> <<>>, triangles |-> <<>>]

Mesh(vertices, triangles) ==
    [present |-> TRUE, vertices |-> vertices, triangles |-> triangles]

MeshObject(type, mesh) == [type |-> type, mesh |-> mesh, components |-> <<>>]

ComponentObject(components) ==
    [type |-> "model", mesh |-> NoMesh, components |-> components]

Component(path, objectid, transform) ==
    [path |-> path, objectid |-> objectid, transform |-> transform]

NoObject == [type |-> "missing", mesh |-> NoMesh, components |-> <<>>]

ObjectOf(resources_by_model, model_path, object_id) ==
    IF /\ model_path \in DOMAIN resources_by_model
       /\ object_id \in DOMAIN resources_by_model[model_path]
    THEN resources_by_model[model_path][object_id]
    ELSE NoObject

DropParentTranslation(a, b) ==
    << Mul(a[1], b[1]) + Mul(a[2], b[4]) + Mul(a[3], b[7]),
       Mul(a[1], b[2]) + Mul(a[2], b[5]) + Mul(a[3], b[8]),
       Mul(a[1], b[3]) + Mul(a[2], b[6]) + Mul(a[3], b[9]),
       Mul(a[4], b[1]) + Mul(a[5], b[4]) + Mul(a[6], b[7]),
       Mul(a[4], b[2]) + Mul(a[5], b[5]) + Mul(a[6], b[8]),
       Mul(a[4], b[3]) + Mul(a[5], b[6]) + Mul(a[6], b[9]),
       Mul(a[7], b[1]) + Mul(a[8], b[4]) + Mul(a[9], b[7]),
       Mul(a[7], b[2]) + Mul(a[8], b[5]) + Mul(a[9], b[8]),
       Mul(a[7], b[3]) + Mul(a[8], b[6]) + Mul(a[9], b[9]),
       Mul(a[1], b[10]) + Mul(a[2], b[11]) + Mul(a[3], b[12]),
       Mul(a[4], b[10]) + Mul(a[5], b[11]) + Mul(a[6], b[12]),
       Mul(a[7], b[10]) + Mul(a[8], b[11]) + Mul(a[9], b[12]) >>

_compose_affine_3x4(a, b) ==
    << Mul(a[1], b[1]) + Mul(a[2], b[4]) + Mul(a[3], b[7]),
       Mul(a[1], b[2]) + Mul(a[2], b[5]) + Mul(a[3], b[8]),
       Mul(a[1], b[3]) + Mul(a[2], b[6]) + Mul(a[3], b[9]),
       Mul(a[4], b[1]) + Mul(a[5], b[4]) + Mul(a[6], b[7]),
       Mul(a[4], b[2]) + Mul(a[5], b[5]) + Mul(a[6], b[8]),
       Mul(a[4], b[3]) + Mul(a[5], b[6]) + Mul(a[6], b[9]),
       Mul(a[7], b[1]) + Mul(a[8], b[4]) + Mul(a[9], b[7]),
       Mul(a[7], b[2]) + Mul(a[8], b[5]) + Mul(a[9], b[8]),
       Mul(a[7], b[3]) + Mul(a[8], b[6]) + Mul(a[9], b[9]),
       Mul(a[1], b[10]) + Mul(a[2], b[11]) + Mul(a[3], b[12]) + a[10],
       Mul(a[4], b[10]) + Mul(a[5], b[11]) + Mul(a[6], b[12]) + a[11],
       Mul(a[7], b[10]) + Mul(a[8], b[11]) + Mul(a[9], b[12]) + a[12] >>

MAX_DEPTH == 12

NoGeometry == [error |-> "none", vertices |-> <<>>, triangles |-> <<>>]

NestingTooDeep ==
    [error |-> "3MF component nesting too deep", vertices |-> <<>>,
     triangles |-> <<>>]

ValidTriangle(tri, count) ==
    \A k \in 1..3 : tri[k] >= 0 /\ tri[k] < count

\* vertices_out.extend(child_vertices) with the child's triangles re-based
RECURSIVE ExtendWithChildren(_, _, _)
ExtendWithChildren(children, i, out) ==
    IF i > Len(children) THEN out
    ELSE IF children[i].vertices = <<>>
    THEN ExtendWithChildren(children, i + 1, out)
    ELSE ExtendWithChildren(children, i + 1,
            [out EXCEPT
                !.vertices = @ \o children[i].vertices,
                !.triangles = @ \o
                    [k \in DOMAIN children[i].triangles |->
                        [j \in 1..3 |->
                            Len(out.vertices) + children[i].triangles[k][j]]]])

RECURSIVE _collect_object_mesh_geometry(_, _, _, _, _, _)
_collect_object_mesh_geometry(resources_by_model, model_path, object_id, transform_3x4, depth, include_modifiers) ==
    LET obj_elem == ObjectOf(resources_by_model, model_path, object_id)
        t == IF transform_3x4 = <<>> THEN IDENTITY_3MF ELSE transform_3x4
    IN  IF depth > MAX_DEPTH THEN NestingTooDeep
        ELSE IF obj_elem = NoObject THEN NoGeometry
        ELSE IF ~include_modifiers /\ obj_elem.type # "model" THEN NoGeometry
        ELSE IF obj_elem.mesh.present THEN
            LET local_vertices ==
                    [i \in DOMAIN obj_elem.mesh.vertices |->
                        _transform_point_3x4(obj_elem.mesh.vertices[i], t)]
            IN  [error |-> "none",
                 vertices |-> local_vertices,
                 triangles |->
                    SelectSeq(obj_elem.mesh.triangles,
                              LAMBDA tri : ValidTriangle(tri, Len(local_vertices)))]
        ELSE
            LET components == SelectSeq(obj_elem.components,
                                        LAMBDA comp : comp.objectid # 0)
                children ==
                    [i \in DOMAIN components |->
                        _collect_object_mesh_geometry(
                            resources_by_model,
                            IF components[i].path # "" THEN components[i].path
                                                       ELSE model_path,
                            components[i].objectid,
                            _compose_affine_3x4(t, components[i].transform),
                            depth + 1, include_modifiers)]
            IN  IF \E i \in DOMAIN children : children[i].error # "none"
                THEN NestingTooDeep
                ELSE ExtendWithChildren(children, 1, NoGeometry)

_scan_vertex_bounds_from_element(mesh) ==
    IF mesh.vertices = <<>> THEN NoBounds
    ELSE LET pts == {mesh.vertices[i] : i \in DOMAIN mesh.vertices}
         IN  << SetMin({q[1] : q \in pts}), SetMin({q[2] : q \in pts}),
                SetMin({q[3] : q \in pts}),
                SetMax({q[1] : q \in pts}), SetMax({q[2] : q \in pts}),
                SetMax({q[3] : q \in pts}) >>

UnionOfBoxes(boxes) ==
    IF boxes = {} THEN NoBounds
    ELSE << SetMin({b[1] : b \in boxes}), SetMin({b[2] : b \in boxes}),
            SetMin({b[3] : b \in boxes}),
            SetMax({b[4] : b \in boxes}), SetMax({b[5] : b \in boxes}),
            SetMax({b[6] : b \in boxes}) >>

\* The mesh a component resolves to.  With a path, the object is looked up
\* in that model file; without one the lookup goes through
\* obj_elem.getparent(), which xml.etree elements do not have, so a reference
\* into the same file resolves to nothing.
ReferencedMesh(resources_by_model, component) ==
    IF component.path # ""
    THEN ObjectOf(resources_by_model, component.path, component.objectid).mesh
    ELSE NoMesh

_scan_object_bounds(resources_by_model, obj_elem) ==
    IF obj_elem.mesh.present
    THEN _scan_vertex_bounds_from_element(obj_elem.mesh)
    ELSE UnionOfBoxes(
            { _apply_affine_to_bounds_3x4(
                  _scan_vertex_bounds_from_element(
                      ReferencedMesh(resources_by_model, obj_elem.components[i])),
                  obj_elem.components[i].transform) :
                i \in { j \in DOMAIN obj_elem.components :
                          /\ obj_elem.components[j].objectid # 0
                          /\ ReferencedMesh(resources_by_model,
                                            obj_elem.components[j]).present
                          /\ _scan_vertex_bounds_from_element(
                                ReferencedMesh(resources_by_model,
                                               obj_elem.components[j])) # NoBounds } })

\* The object of the main model file is scanned for its bounds.
scan_object_bounds(object_id) ==
    /\ call.op = "none"
    /\ object_id \in DOMAIN scene.resources_by_model[MODEL_NAME]
    /\ call' = [op |-> "_scan_object_bounds", object_id |-> object_id]
    /\ scene' = [scene EXCEPT !.bounds =
                    _scan_object_bounds(scene.resources_by_model,
                        scene.resources_by_model[MODEL_NAME][object_id])]
    /\ outcome' = "ok"
    /\ UNCHANGED <<src_3mf, output_3mf, profiles, invoked, workdir>>

\* The geometry of an object of the main model file is collected.
collect_object_mesh_geometry(object_id, transform_3x4, include_modifiers) ==
    /\ call.op = "none"
    /\ call' = [op |-> "_collect_object_mesh_geometry", object_id |-> object_id,
                transform_3x4 |-> transform_3x4,
                include_modifiers |-> include_modifiers]
    /\ \E geometry \in {_collect_object_mesh_geometry(
                            scene.resources_by_model, MODEL_NAME, object_id,
                            transform_3x4, 0, include_modifiers)} :
        /\ scene' = [scene EXCEPT !.geometry = geometry]
        /\ outcome' = IF geometry.error = "none" THEN "ok" ELSE "ValueError"
    /\ UNCHANGED <<src_3mf, output_3mf, profiles, invoked, workdir>>

Triangle == << <<0, 0, 0>>, <<MM(10), 0, 0>>, <<0, MM(20), MM(5)>> >>
Sliver == << <<MM(1), MM(1), 0>>, <<MM(2), MM(1), MM(3)>> >>

TriangleMesh == Mesh(Triangle, << <<0, 1, 2>>, <<0, 1, 5>> >>)
SliverMesh == Mesh(Sliver, <<>>)

TurnAndShift == _compose_affine_3x4(Shift(MM(30), MM(5)), _rotation_z_3mf(90))

\* Objects 1..n + 1 of one file, each made of the next, the last one a mesh.
ChainOfComponents(n) ==
    [id \in 1..(n + 1) |->
        IF id = n + 1 THEN MeshObject("model", TriangleMesh)
        ELSE ComponentObject(<<Component("", id + 1, Shift(MM(1), 0))>>)]

MainOnly(objects) == [path \in {MODEL_NAME} |-> objects]

WithSubModel(objects, sub_objects) ==
    [path \in {MODEL_NAME, SUB_MODEL_NAME} |->
        IF path = MODEL_NAME THEN objects ELSE sub_objects]

ComponentGraphs ==
    { \* a plain mesh, and an assembly of two parts, one of them nested
      MainOnly(<< ComponentObject(<<Component("", 2, Shift(MM(40), 0)),
                                    Component("", 3, TurnAndShift)>>),
                  MeshObject("model", TriangleMesh),
                  ComponentObject(<<Component("", 4, Shift(0, MM(7)))>>),
                  MeshObject("model", SliverMesh) >>),
      \* parts kept in a sub-model file, one level and two levels down
      WithSubModel(<< ComponentObject(<<Component(SUB_MODEL_NAME, 1, TurnAndShift),
                                        Component(SUB_MODEL_NAME, 2, Shift(MM(3), 0))>>),
                      ComponentObject(<<Component(SUB_MODEL_NAME, 3, IDENTITY_3MF)>>) >>,
                   << MeshObject("model", TriangleMesh),
                      ComponentObject(<<Component("", 3, Shift(0, MM(9)))>>),
                      MeshObject("model", SliverMesh) >>),
      \* a missing object, a component without objectid, a modifier part
      MainOnly(<< ComponentObject(<<Component("", 2, Shift(MM(40), 0)),
                                    Component("", 9, IDENTITY_3MF),
                                    Component("", 0, IDENTITY_3MF),
                                    Component("", 3, Shift(0, MM(2)))>>),
                  MeshObject("model", TriangleMesh),
                  MeshObject("other", SliverMesh) >>),
      \* an object made of itself, two objects made of each other, and a
      \* modifier part made of itself
      MainOnly(<< ComponentObject(<<Component("", 1, Shift(MM(1), 0))>>),
                  ComponentObject(<<Component("", 3, Shift(MM(1), 0)),
                                    Component("", 4, IDENTITY_3MF)>>),
                  ComponentObject(<<Component("", 2, Shift(0, MM(1)))>>),
                  MeshObject("model", TriangleMesh),
                  [type |-> "other", mesh |-> NoMesh,
                   components |-> <<Component("", 5, IDENTITY_3MF)>>] >>),
      \* chains of MAX_DEPTH and MAX_DEPTH + 1 references
      MainOnly(ChainOfComponents(MAX_DEPTH)),
      MainOnly(ChainOfComponents(MAX_DEPTH + 1)) }

MaxObjectId == 5

RootTransforms == {<<>>, _rotation_z_3mf(90), Shift(MM(100), MM(100))}

InitComponents ==
    /\ src_3mf = <<>>
    /\ output_3mf = <<>>
    /\ call = [op |-> "none"]
    /\ outcome = "none"
    /\ profiles = NoProfiles
    /\ invoked = {}
    /\ scene \in { [resources_by_model |-> g, bounds |-> NoBounds,
                    geometry |-> NoGeometry] : g \in ComponentGraphs }
    /\ workdir = {}

NextComponents ==
    \/ \E object_id \in 1..MaxObjectId : scan_object_bounds(object_id)
    \/ \E object_id \in 1..MaxObjectId, transform_3x4 \in RootTransforms,
          include_modifiers \in BOOLEAN :
            collect_object_mesh_geometry(object_id, transform_3x4,
                                         include_modifiers)

SpecComponents == InitComponents /\ [][NextComponents]_vars



-----------------------------------------------------------------------------
(* Claims about component-based objects *)

\* The chains of component references that start at an object: sequences of
\* hops, each hop naming the file and id of the object referred to and the
\* component's transform.  A chain ends at a mesh, at a missing object, at a
\* hidden object, or when it has `budget` hops.
Hidden(obj, include_modifiers) ==
    ~include_modifiers /\ obj # NoObject /\ obj.type # "model"

RECURSIVE ChainsFrom(_, _, _, _, _)
ChainsFrom(resources_by_model, model_path, object_id, budget, include_modifiers) ==
    LET obj == ObjectOf(resources_by_model, model_path, object_id)
    IN  {<<>>} \cup
        IF budget = 0 \/ obj.mesh.present \/ Hidden(obj, include_modifiers)
        THEN {}
        ELSE UNION {
            LET comp == obj.components[i]
                target == IF comp.path # "" THEN comp.path ELSE model_path
            IN  { << [model_path |-> target, objectid |-> comp.objectid,
                      transform |-> comp.transform] >> \o rest :
                    rest \in ChainsFrom(resources_by_model, target,
                                        comp.objectid, budget - 1,
                                        include_modifiers) } :
            i \in {j \in DOMAIN obj.components : obj.components[j].objectid # 0} }

EndOf(resources_by_model, model_path, object_id, chain) ==
    IF chain = <<>> THEN ObjectOf(resources_by_model, model_path, object_id)
    ELSE ObjectOf(resources_by_model, chain[Len(chain)].model_path,
                  chain[Len(chain)].objectid)

\* A point of the mesh at the end of a chain, carried outwards hop by hop.
RECURSIVE ThroughChain(_, _)
ThroughChain(point, chain) ==
    IF chain = <<>> THEN point
    ELSE ThroughChain(_transform_point_3x4(point, chain[Len(chain)].transform),
                      SubSeq(chain, 1, Len(chain) - 1))

MeshChains(resources_by_model, object_id, include_modifiers) ==
    { chain \in ChainsFrom(resources_by_model, MODEL_NAME, object_id,
                           MAX_DEPTH + 1, include_modifiers) :
        LET end == EndOf(resources_by_model, MODEL_NAME, object_id, chain)
        IN  end.mesh.present /\ ~Hidden(end, include_modifiers) }

ReachableVertices(resources_by_model, object_id, include_modifiers) ==
    UNION { {<<chain, i>> :
                i \in DOMAIN EndOf(resources_by_model, MODEL_NAME, object_id,
                                   chain).mesh.vertices} :
            chain \in MeshChains(resources_by_model, object_id,
                                 include_modifiers) }

PointsOfSet(pts) ==
    IF pts = {} THEN NoBounds
    ELSE << SetMin({q[1] : q \in pts}), SetMin({q[2] : q \in pts}),
            SetMin({q[3] : q \in pts}),
            SetMax({q[1] : q \in pts}), SetMax({q[2] : q \in pts}),
            SetMax({q[3] : q \in pts}) >>

ReachablePoints(resources_by_model, object_id, include_modifiers) ==
    { ThroughChain(EndOf(resources_by_model, MODEL_NAME, object_id,
                         ci[1]).mesh.vertices[ci[2]], ci[1]) :
        ci \in ReachableVertices(resources_by_model, object_id,
                                 include_modifiers) }

\* C19 as stated: the bounds _scan_object_bounds returns for an object are
\* the union, over every mesh reachable through its components at any depth,
\* in the same file or in a sub-model file, of the mesh's vertices carried
\* through the component transforms; None only when no vertex is reachable.
C19_BoundsOfAllReachableMeshes ==
    call.op = "_scan_object_bounds" =>
        scene.bounds = PointsOfSet(ReachablePoints(scene.resources_by_model,
                                                   call.object_id, TRUE))

Collected == call.op = "_collect_object_mesh_geometry"

RootTransform ==
    IF call.transform_3x4 = <<>> THEN IDENTITY_3MF ELSE call.transform_3x4

FlattenedAsClaimed(include_modifiers) ==
    LET res == scene.resources_by_model
        too_deep == \E chain \in ChainsFrom(res, MODEL_NAME, call.object_id,
                                            MAX_DEPTH + 1, include_modifiers) :
                        Len(chain) > MAX_DEPTH
        reachable == ReachableVertices(res, call.object_id, include_modifiers)
        got == scene.geometry.vertices
    IN  /\ outcome \in {"ok", "ValueError"}
        /\ too_deep <=> scene.geometry.error = "3MF component nesting too deep"
        /\ too_deep => outcome = "ValueError" /\ got = <<>>
        /\ ~too_deep =>
            /\ outcome = "ok"
            /\ Len(got) = Cardinality(reachable)
            /\ {got[i] : i \in DOMAIN got} =
                   { _transform_point_3x4(p, RootTransform) :
                       p \in ReachablePoints(res, call.object_id,
                                             include_modifiers) }

\* C20 as stated: _collect_object_mesh_geometry ends on every component
\* graph; it fails with the nesting-too-deep error exactly when a chain of
\* references is more than 12 deep, and otherwise returns every vertex of
\* every mesh the object reaches, each carried through the transforms along
\* its chain; a missing object adds nothing and is no error.
C20_FlattenedOrTooDeep ==
    Collected => FlattenedAsClaimed(TRUE)

\* C20, amended: the same, where with include_modifiers = False an object
\* whose type is not "model" is skipped together with everything it refers
\* to.
C20_FlattenedVisibleOrTooDeep ==
    Collected => FlattenedAsClaimed(call.include_modifiers)

C20_Witness ==
    /\ Collected
    /\ outcome = "ok"
    /\ call.transform_3x4 = Shift(MM(100), MM(100))
    /\ Len(scene.geometry.vertices) = Len(Triangle) + Len(Sliver)
    /\ \E chain \in MeshChains(scene.resources_by_model, call.object_id,
                               call.include_modifiers) : Len(chain) = 2



-----------------------------------------------------------------------------
(* Plate numbering: build-item indices and the vendor's plater_id *)

\* Metadata/model_settings.config as far as plates go: the <plate> elements
\* in document order, each with its plater_id (0: no such metadata), its
\* plater_name and the object_id of each model_instance; and the names of the
\* <object> elements.
PlateSettingsBody(plates, object_names) ==
    [kind |-> "model_settings", ser |-> "source", plates |-> plates,
     object_names |-> object_names]

VendorPlate(plater_id, plater_name, object_ids) ==
    [plater_id |-> plater_id, plater_name |-> plater_name,
     object_ids |-> object_ids]

VendorPlates(zf) ==
    IF MODEL_SETTINGS_NAME \in namelist(zf)
    THEN zf[read(zf, MODEL_SETTINGS_NAME)].body.plates
    ELSE <<>>

\* The first plate, in document order, one of whose model_instances names the
\* object; its plater_id, or 0 (None) when it has none or no plate is found.
_get_bambu_plate_for_object(zf, object_id) ==
    LET plates == VendorPlates(zf)
        holding == {i \in DOMAIN plates :
                       \E k \in DOMAIN plates[i].object_ids :
                           plates[i].object_ids[k] = object_id}
    IN  IF holding = {} THEN 0
        ELSE plates[CHOOSE i \in holding : \A j \in holding : i <= j].plater_id

\* bambu_plate_names: plater_id -> plater_name, for the plates that carry both
\* (a later plate with the same plater_id overwrites an earlier one).
bambu_plate_names(zf) ==
    LET plates == VendorPlates(zf)
        named == {i \in DOMAIN plates :
                     plates[i].plater_id # 0 /\ plates[i].plater_name # ""}
    IN  [pid \in {plates[i].plater_id : i \in named} |->
            plates[CHOOSE i \in named :
                      /\ plates[i].plater_id = pid
                      /\ \A j \in named :
                            plates[j].plater_id = pid => j <= i].plater_name]

bambu_object_names(zf) ==
    IF MODEL_SETTINGS_NAME \in namelist(zf)
    THEN zf[read(zf, MODEL_SETTINGS_NAME)].body.object_names
    ELSE [oid \in {} |-> ""]

\* Name priority: vendor plate name > vendor object name > "Plate N" (the
\* objects of the files considered carry no name attribute of their own).
resolved_name(zf, plate_num, object_id) ==
    IF plate_num \in DOMAIN bambu_plate_names(zf)
    THEN bambu_plate_names(zf)[plate_num]
    ELSE IF object_id \in DOMAIN bambu_object_names(zf)
    THEN bambu_object_names(zf)[object_id]
    ELSE "Plate " \o ToString(plate_num)

\* parse_multi_plate_3mf, with the name it gives each plate.
parse_plates ==
    /\ call.op = "none"
    /\ call' = [op |-> "parse_multi_plate_3mf"]
    /\ scene' = [plates |->
                    [i \in DOMAIN parse_multi_plate_3mf(src_3mf) |->
                        [plate_id |-> parse_multi_plate_3mf(src_3mf)[i].plate_id,
                         object_id |-> parse_multi_plate_3mf(src_3mf)[i].object_id,
                         plate_name |->
                            resolved_name(src_3mf, i,
                                parse_multi_plate_3mf(src_3mf)[i].object_id)]],
                 plate_index |-> 0]
    /\ outcome' = "ok"
    /\ UNCHANGED <<src_3mf, output_3mf, profiles, invoked, workdir>>

\* slice_plate as far as the plate index goes: the plate is looked up by the
\* request's plate_id, and every slicer invocation of the job (the first run
\* and each re-run) is given effective_plate_id.
slice_plate_index(plate_id) ==
    /\ call.op = "none"
    /\ call' = [op |-> "slice_plate", plate_id |-> plate_id]
    /\ LET plates == parse_multi_plate_3mf(src_3mf)
           is_bambu == _is_bambu_file(src_3mf)
       IN  IF ~is_multi_plate(src_3mf)
           THEN /\ outcome' = "HTTPException 400"
                /\ scene' = [plates |-> <<>>, plate_index |-> 0]
                /\ invoked' = invoked
           ELSE IF PlateNotFound(src_3mf, plate_id)
           THEN /\ outcome' = "HTTPException 404"
                /\ scene' = [plates |-> <<>>, plate_index |-> 0]
                /\ invoked' = invoked
           ELSE
               LET target_plate == plates[plate_id]
                   found == _get_bambu_plate_for_object(src_3mf,
                                                        target_plate.object_id)
                   bambu_plate == IF found # 0 THEN found ELSE 1
                   effective_plate_id == IF is_bambu THEN bambu_plate
                                         ELSE plate_id
               IN  /\ outcome' = "ok"
                   /\ scene' = [plates |-> <<>>,
                                plate_index |-> effective_plate_id]
                   /\ invoked' = invoked \cup {"slicer"}
    /\ UNCHANGED <<src_3mf, output_3mf, profiles, workdir>>

MaxPlateItems == 3

PlateItemChoices ==
    { <<"1">>, <<"1", "2">>, <<"2", "1">>, <<"3", "1">>,
      <<"1", "2", "3">>, <<"3", "1", "2">> }

NoObjectNames == [oid \in {} |-> ""]

\* Vendor plates in step with the build items, against them, one plate for
\* all objects, an unnamed second plate, a plate without plater_id, and a
\* file whose plates list no objects.
VendorPlateChoices ==
    { PlateSettingsBody(<< VendorPlate(1, "Front", <<"1">>),
                           VendorPlate(2, "Back", <<"2">>),
                           VendorPlate(3, "Spare", <<"3">>) >>, NoObjectNames),
      PlateSettingsBody(<< VendorPlate(1, "Front", <<"2">>),
                           VendorPlate(2, "Back", <<"1", "3">>) >>, NoObjectNames),
      PlateSettingsBody(<< VendorPlate(1, "Front", <<"1", "2", "3">>) >>,
                        [oid \in {"2"} |-> "Bracket"]),
      PlateSettingsBody(<< VendorPlate(1, "Front", <<"3">>),
                           VendorPlate(2, "", <<"1", "2">>) >>, NoObjectNames),
      PlateSettingsBody(<< VendorPlate(0, "", <<"1">>),
                           VendorPlate(2, "Back", <<"2", "3">>) >>, NoObjectNames),
      PlateSettingsBody(<<>>, NoObjectNames) }

PlateArchives ==
    { << Entry(MODEL_NAME, "deflated",
               [kind |-> "model", ser |-> "source", paint_color |-> FALSE,
                items |-> [i \in DOMAIN ids |->
                              [objectid |-> ids[i], transform |-> <<>>,
                               printable |-> "1"]]]) >> \o settings :
        ids \in PlateItemChoices,
        settings \in {<<>>} \cup
            { << Entry(MODEL_SETTINGS_NAME, "deflated", ms) >> :
                ms \in VendorPlateChoices } }

InitPlates ==
    /\ src_3mf \in PlateArchives
    /\ output_3mf = <<>>
    /\ call = [op |-> "none"]
    /\ outcome = "none"
    /\ profiles = NoProfiles
    /\ invoked = {}
    /\ scene = NoScene
    /\ workdir = {}

NextPlates ==
    \/ parse_plates
    \/ \E plate_id \in 1..(MaxPlateItems + 1) : slice_plate_index(plate_id)

SpecPlates == InitPlates /\ [][NextPlates]_vars

-----------------------------------------------------------------------------
(* Claims about plate numbering *)

\* The vendor plates one of whose model_instances lists the object.
PlatesHolding(object_id) ==
    {i \in DOMAIN VendorPlates(src_3mf) :
        \E k \in DOMAIN VendorPlates(src_3mf)[i].object_ids :
            VendorPlates(src_3mf)[i].object_ids[k] = object_id}

SlicedPlate == call.op = "slice_plate" /\ outcome = "ok"

SlicerIndexReconciled ==
    (SlicedPlate /\ _is_bambu_file(src_3mf)) =>
        LET holding == PlatesHolding(
                          BuildItems(src_3mf)[call.plate_id].objectid)
        IN  IF holding = {} THEN scene.plate_index = 1
            ELSE \E i \in holding :
                    scene.plate_index = VendorPlates(src_3mf)[i].plater_id

VendorPlateNames ==
    {VendorPlates(src_3mf)[i].plater_name : i \in DOMAIN VendorPlates(src_3mf)}
        \ {""}

NamesReconciled ==
    call.op = "parse_multi_plate_3mf" =>
        \A n \in DOMAIN scene.plates :
            scene.plates[n].plate_name \in VendorPlateNames =>
                \E i \in PlatesHolding(scene.plates[n].object_id) :
                    VendorPlates(src_3mf)[i].plater_name =
                        scene.plates[n].plate_name

\* C21 as stated: for a vendor file the plate index given to the slicer by
\* slice_plate, and the vendor plate name parse_multi_plate_3mf attaches to a
\* plate, are those of the vendor plate whose model_instance lists the object
\* of the selected build item; the index is 1 only as a fallback when no such
\* plate exists.
C21_PlaterIdReconciled ==
    SlicerIndexReconciled /\ NamesReconciled



-----------------------------------------------------------------------------
(* The transform parsers on arbitrary attribute text *)

MaxTokens == 17

\* Sixteen distinct values, so that a result shows which tokens it took.
BaseTokens ==
    { [i \in 1..(MaxTokens + 1) |-> i * ONE + i],
      [i \in 1..(MaxTokens + 1) |-> IF i % 2 = 0 THEN -i * 1000 ELSE i * 7],
      [i \in 1..(MaxTokens + 1) |->
          IF i \in {1, 5, 9, 16} THEN ONE
          ELSE IF i \in 10..12 THEN MM(40 + i) ELSE 0] }

\* A prefix of a base text, possibly with one token float() rejects.
TransformTexts ==
    { [i \in 1..n |-> IF i = bad THEN NonNumeric ELSE base[i]] :
        base \in BaseTokens, n \in 0..MaxTokens, bad \in 0..MaxTokens }

NoParse == [parsed |-> FALSE, text |-> <<>>, values |-> <<>>, written |-> <<>>]

parse_transform(parser) ==
    /\ call.op = "none"
    /\ call' = [op |-> parser]
    /\ scene' = [scene EXCEPT
                    !.parsed = TRUE,
                    !.values = IF parser = "_parse_3mf_transform"
                               THEN _parse_3mf_transform(scene.text)
                               ELSE _parse_3mf_transform_values(scene.text)]
    /\ outcome' = "ok"
    /\ UNCHANGED <<src_3mf, output_3mf, profiles, invoked, workdir>>

\* A parsed 12-value transform is written in the 16-value form of
\* _transform_3x4_to_4x4 and read back.
write_and_parse(parser) ==
    /\ call.op = "none"
    /\ Len(scene.text) = 12 /\ AllNumeric(scene.text)
    /\ call' = [op |-> "_transform_3x4_to_4x4", parser |-> parser]
    /\ \E written \in {_transform_3x4_to_4x4(scene.text)} :
        scene' = [scene EXCEPT
                    !.parsed = TRUE,
                    !.written = written,
                    !.values = IF parser = "_parse_3mf_transform"
                               THEN _parse_3mf_transform(written)
                               ELSE _parse_3mf_transform_values(written)]
    /\ outcome' = "ok"
    /\ UNCHANGED <<src_3mf, output_3mf, profiles, invoked, workdir>>

InitText ==
    /\ src_3mf = <<>>
    /\ output_3mf = <<>>
    /\ call = [op |-> "none"]
    /\ outcome = "none"
    /\ profiles = NoProfiles
    /\ invoked = {}
    /\ scene \in {[NoParse EXCEPT !.text = text] : text \in TransformTexts}
    /\ workdir = {}

Parsers == {"_parse_3mf_transform", "_parse_3mf_transform_values"}

NextText ==
    \/ \E parser \in Parsers : parse_transform(parser)
    \/ \E parser \in Parsers : write_and_parse(parser)

SpecText == InitText /\ [][NextText]_vars

-----------------------------------------------------------------------------
(* Claims about the transform parsers *)

ParsedText == call.op \in Parsers

C28_WrittenFormReadsBack ==
    call.op = "_transform_3x4_to_4x4" => scene.values = scene.text

-----------------------------------------------------------------------------
(* _recenter_build_items on its own: the model document and the delta are
   drawn from small sets and the function is applied once. *)

MaxBuildItems == 2

\* a 16-value transform, and one whose tx is not a number
T16 == T50 \o <<0, 0, 0, ONE>>
TBadTx == [T50 EXCEPT ![10] = NonNumeric]

RecenterTags ==
    { [objectid |-> "1", transform |-> t, printable |-> "1"] :
        t \in {<<>>, T50, TFine, T16, TBadTx} }

RecenterItems ==
    UNION { [1..n -> RecenterTags] : n \in 1..MaxBuildItems }

\* 0, 0.0005 mm, 0.001 mm, -5 mm, 20 mm
RecenterDeltas == {0, ONE \div 2000, ONE \div 1000, -MM(5), MM(20)}

recenter_build_items(dx, dy) ==
    /\ call.op = "none"
    /\ call' = [op |-> "_recenter_build_items", dx |-> dx, dy |-> dy]
    /\ scene' = [scene EXCEPT
                    !.returned = _recenter_build_items(scene.model, dx, dy)]
    /\ outcome' = "ok"
    /\ UNCHANGED <<src_3mf, output_3mf, profiles, invoked, workdir>>

InitRecenter ==
    /\ src_3mf = <<>>
    /\ output_3mf = <<>>
    /\ call = [op |-> "none"]
    /\ outcome = "none"
    /\ profiles = NoProfiles
    /\ invoked = {}
    /\ scene \in { [model |-> ModelBody("source", items), returned |-> <<>>] :
                     items \in RecenterItems }
    /\ workdir = {}

NextRecenter ==
    \E dx \in RecenterDeltas, dy \in RecenterDeltas : recenter_build_items(dx, dy)

SpecRecenter == InitRecenter /\ [][NextRecenter]_vars

-----------------------------------------------------------------------------
(* Claims about _recenter_build_items *)

Recentered == call.op = "_recenter_build_items"

BelowThreshold ==
    Abs(call.dx) < ONE \div 1000 /\ Abs(call.dy) < ONE \div 1000

\* the transform an item has: identity when the attribute is absent
ItemTransform(tag) ==
    IF tag.transform = <<>> THEN IDENTITY_3MF ELSE tag.transform

WellFormed(tag) ==
    \/ tag.transform = <<>>
    \/ Len(tag.transform) = 12 /\ AllNumeric(tag.transform)

\* C23: below the threshold the document is returned as it was; otherwise
\* every build item's transform, an absent attribute counting as identity,
\* has tx increased by dx and ty by dy, its linear part and tz are kept,
\* and nothing else in the document changes.
C23_EveryBuildItemShifted ==
    Recentered =>
        IF BelowThreshold THEN scene.returned = scene.model
        ELSE /\ [scene.returned EXCEPT !.items = scene.model.items] = scene.model
             /\ Len(scene.returned.items) = Len(scene.model.items)
             /\ \A i \in DOMAIN scene.model.items :
                  LET before == scene.model.items[i]
                      after == scene.returned.items[i]
                  IN  /\ [after EXCEPT !.transform = before.transform] = before
                      /\ WellFormed(before) =>
                            ItemTransform(after) =
                                [ItemTransform(before) EXCEPT
                                    ![10] = @ + call.dx, ![11] = @ + call.dy]

\* the same for the items that carry a 12-number transform attribute
C23_ItemsWithTransformShifted ==
    Recentered =>
        IF BelowThreshold THEN scene.returned = scene.model
        ELSE /\ [scene.returned EXCEPT !.items = scene.model.items] = scene.model
             /\ \A i \in DOMAIN scene.model.items :
                  LET before == scene.model.items[i]
                      after == scene.returned.items[i]
                  IN  IF Len(before.transform) = 12 /\ AllNumeric(before.transform)
                      THEN after = [before EXCEPT
                                      !.transform[10] = @ + call.dx,
                                      !.transform[11] = @ + call.dy]
                      ELSE after = before

C23_Witness ==
    /\ Recentered
    /\ ~BelowThreshold
    /\ \E i \in DOMAIN scene.model.items : scene.model.items[i].transform = <<>>
    /\ \E i \in DOMAIN scene.model.items : scene.model.items[i].transform = TFine

-----------------------------------------------------------------------------
(* _fold_packed_plate_coord on its own: value, step and bed size are drawn
   from small sets and the function is applied once. *)

FoldValues ==
    { -MM(400), -MM(271), -MM(160), -MM(1), 0, MM(1) \div 2, MM(100), MM(270),
      MM(271), MM(299), MM(340), MM(400) }
FoldSteps == { -MM(1), 0, MM(20), MM(270), MM(300) }
FoldBeds == { 0, MM(180), MM(270) }

fold_packed_plate_coord ==
    /\ call.op = "none"
    /\ call' = [op |-> "_fold_packed_plate_coord"]
    /\ scene' = [scene EXCEPT
                    !.returned = _fold_packed_plate_coord(scene.value, scene.step,
                                                          scene.bed_size)]
    /\ outcome' = "ok"
    /\ UNCHANGED <<src_3mf, output_3mf, profiles, invoked, workdir>>

InitFold ==
    /\ src_3mf = <<>>
    /\ output_3mf = <<>>
    /\ call = [op |-> "none"]
    /\ outcome = "none"
    /\ profiles = NoProfiles
    /\ invoked = {}
    /\ scene \in { [value |-> value, step |-> step, bed_size |-> bed_size,
                    returned |-> 0] :
                     value \in FoldValues, step \in FoldSteps, bed_size \in FoldBeds }
    /\ workdir = {}

NextFold == fold_packed_plate_coord

SpecFold == InitFold /\ [][NextFold]_vars

-----------------------------------------------------------------------------
(* Claims about _fold_packed_plate_coord *)

Folded == call.op = "_fold_packed_plate_coord" /\ scene.step > 0

\* what the first loop leaves, and the number of times each loop added or
\* subtracted the step
AfterAdditions == FoldUp(scene.value, scene.step, 8)
Additions == (AfterAdditions - scene.value) \div scene.step
Subtractions == (AfterAdditions - scene.returned) \div scene.step

AtMostEightEach ==
    /\ AfterAdditions = scene.value + Additions * scene.step
    /\ scene.returned = AfterAdditions - Subtractions * scene.step
    /\ Additions \in 0..8
    /\ Subtractions \in 0..8

\* the range the loops compare against: the bed size, and 1.0 when the bed
\* size is smaller
FoldRange == Max2(ONE, scene.bed_size)

\* the number of steps the value lies below 0 or above the range
StepsBelow ==
    IF scene.value >= 0 THEN 0
    ELSE (-scene.value - 1) \div scene.step + 1
StepsAbove ==
    IF scene.value <= FoldRange THEN 0
    ELSE (scene.value - FoldRange - 1) \div scene.step + 1

\* C24: with step > 0 there are at most 8 additions and at most 8
\* subtractions of step, and the returned value lies inside [0, bed_size].
C24_ReturnedInsideBed ==
    Folded =>
        /\ AtMostEightEach
        /\ 0 <= scene.returned /\ scene.returned <= scene.bed_size

\* C24 as the code has it: at most 8 additions and at most 8 subtractions;
\* the returned value lies inside [0, max(1.0, bed_size)] when the step is
\* no larger than that range and the value is within 8 steps of it.
C24_ReturnedInsideBedWithinEightSteps ==
    Folded =>
        /\ AtMostEightEach
        /\ (scene.step <= FoldRange /\ StepsBelow <= 8 /\ StepsAbove <= 8)
           => (0 <= scene.returned /\ scene.returned <= FoldRange)

C24_Witness ==
    /\ Folded
    /\ scene.step <= FoldRange
    /\ scene.value = -MM(160)
    /\ Additions = 8
    /\ scene.returned = 0

-----------------------------------------------------------------------------
(* A slice request and cancel requests for the same job id.  The stored row
   of slicing_jobs, the entry of _job_progress and the position of every
   request are the state; each action is the code between two awaits. *)

MaxCancels == 2

NoProgress == -1

\* _update_progress: the value is clamped to 0..100.
_update_progress(progress) == Min2(Max2(progress, 0), 100)

\* int() rounds towards zero
IntOf(num, den) == IF num >= 0 THEN num \div den ELSE -((-num) \div den)

SlicerPercents == {-50, 0, 50, 99, 100}

NoRequest == [pc |-> "none", endpoint |-> "", status_code |-> 0]

\* Raising into one of the three handlers: the handler clears the progress
\* entry and then awaits its UPDATE.
Handle(status_code) ==
    [scene EXCEPT !.progress = NoProgress,
                  !.request.pc = "failing",
                  !.request.status_code = status_code]

\* Lines 1183-1186, 1928-1931.
slice_request(endpoint) ==
    /\ scene.request.pc = "none"
    /\ scene' = [scene EXCEPT
                    !.request = [pc |-> "validating", endpoint |-> endpoint,
                                 status_code |-> 0],
                    !.progress = _update_progress(1)]
    /\ call' = [op |-> endpoint]
    /\ UNCHANGED <<src_3mf, output_3mf, outcome, profiles, invoked, workdir>>

\* Lines 1217-1265, 1961-2031: the HTTP errors raised before the job row exists.
validation_error(status_code) ==
    /\ scene.request.pc = "validating"
    /\ scene' = [scene EXCEPT !.request.pc = "ended",
                              !.request.status_code = status_code]
    /\ UNCHANGED <<src_3mf, output_3mf, call, outcome, profiles, invoked, workdir>>

\* Lines 1320-1326, 2089-2094.
insert_job ==
    /\ scene.request.pc = "validating"
    /\ scene' = [scene EXCEPT !.request.pc = "inserted", !.status = "processing"]
    /\ UNCHANGED <<src_3mf, output_3mf, call, outcome, profiles, invoked, workdir>>

\* Lines 1329-1512, 2096-2292: workspace, profile embedding, slicer start.
prepare_slice(result) ==
    /\ scene.request.pc = "inserted"
    /\ scene' = CASE result = "ok" ->
                       [scene EXCEPT !.request.pc = "slicing",
                                     !.progress = _update_progress(15)]
                  [] result = "SlicingError" -> Handle(400)
                  [] OTHER -> Handle(500)
    /\ UNCHANGED <<src_3mf, output_3mf, call, outcome, profiles, invoked, workdir>>

\* Lines 1521-1525, 2298-2302.
_slicer_progress(pct) ==
    /\ scene.request.pc = "slicing"
    /\ ~scene.killed
    /\ scene' = IF pct >= 100 THEN scene
                ELSE [scene EXCEPT
                        !.progress = _update_progress(20 + IntOf(pct * 65, 100))]
    /\ call' = [op |-> "_slicer_progress", pct |-> pct]
    /\ UNCHANGED <<src_3mf, output_3mf, outcome, profiles, invoked, workdir>>

\* The slicer process ends: killed by a cancel, failed, or finished; then
\* lines 1699-1760, 2432-2493.
slicer_exit(result) ==
    /\ scene.request.pc = "slicing"
    /\ scene' = IF scene.killed THEN Handle(499)
                ELSE IF result = "SlicingError" THEN Handle(500)
                ELSE [scene EXCEPT !.request.pc = "saving",
                                   !.progress = _update_progress(95)]
    /\ UNCHANGED <<src_3mf, output_3mf, call, outcome, profiles, invoked, workdir>>

\* Lines 1773-1805, 2503-2535: UPDATE ... WHERE job_id = $1 AND status =
\* 'processing'; "UPDATE 0" raises SlicingCancelledError.
record_completed ==
    /\ scene.request.pc = "saving"
    /\ scene' = IF scene.status = "processing"
                THEN [scene EXCEPT !.status = "completed",
                                   !.request.pc = "recorded"]
                ELSE Handle(499)
    /\ UNCHANGED <<src_3mf, output_3mf, call, outcome, profiles, invoked, workdir>>

\* Lines 1807-1839, 2537-2571: progress 100, then cleared, then the response.
return_completed ==
    /\ scene.request.pc = "recorded"
    /\ scene' = [scene EXCEPT !.progress = NoProgress,
                              !.request.pc = "ended",
                              !.request.status_code = 200]
    /\ UNCHANGED <<src_3mf, output_3mf, call, outcome, profiles, invoked, workdir>>

\* Lines 1844-1852, 1864-1887, 1893-1906: UPDATE ... SET status = 'failed'
\* WHERE job_id = $1, then the HTTP error.
handler_update ==
    /\ scene.request.pc = "failing"
    /\ scene' = [scene EXCEPT !.status = "failed", !.request.pc = "ended"]
    /\ UNCHANGED <<src_3mf, output_3mf, call, outcome, profiles, invoked, workdir>>

\* Lines 3071-3077: cancel_slice_job kills the slicer process of the job
\* when there is one.
cancel_slicing_job(c) ==
    /\ scene.cancel[c] = "none"
    /\ scene' = IF scene.request.pc = "slicing"
                THEN [scene EXCEPT !.killed = TRUE, !.cancel[c] = "ended"]
                ELSE [scene EXCEPT !.cancel[c] = "selecting"]
    /\ UNCHANGED <<src_3mf, output_3mf, call, outcome, profiles, invoked, workdir>>

\* Lines 3080-3084: SELECT status.
cancel_select(c) ==
    /\ scene.cancel[c] = "selecting"
    /\ scene' = IF scene.status = "processing"
                THEN [scene EXCEPT !.cancel[c] = "updating"]
                ELSE [scene EXCEPT !.cancel[c] = "ended"]
    /\ UNCHANGED <<src_3mf, output_3mf, call, outcome, profiles, invoked, workdir>>

\* Lines 3085-3093: UPDATE ... SET status = 'failed' WHERE job_id = $1, then
\* the progress entry is cleared.
cancel_update(c) ==
    /\ scene.cancel[c] = "updating"
    /\ scene' = [scene EXCEPT !.status = "failed",
                              !.failed_by_cancel = TRUE,
                              !.progress = NoProgress,
                              !.cancel[c] = "ended"]
    /\ UNCHANGED <<src_3mf, output_3mf, call, outcome, profiles, invoked, workdir>>

InitRequest ==
    /\ src_3mf = <<>>
    /\ output_3mf = <<>>
    /\ call = [op |-> "none"]
    /\ outcome = "none"
    /\ profiles = NoProfiles
    /\ invoked = {}
    /\ scene = [status |-> "none", progress |-> NoProgress, request |-> NoRequest,
                killed |-> FALSE, failed_by_cancel |-> FALSE,
                cancel |-> [c \in 1..MaxCancels |-> "none"]]
    /\ workdir = {}

NextRequest ==
    \/ \E endpoint \in {"slice_upload", "slice_plate"} : slice_request(endpoint)
    \/ \E status_code \in {400, 404, 500} : validation_error(status_code)
    \/ insert_job
    \/ \E result \in {"ok", "SlicingError", "Exception"} : prepare_slice(result)
    \/ \E pct \in SlicerPercents : _slicer_progress(pct)
    \/ \E result \in {"ok", "SlicingError"} : slicer_exit(result)
    \/ record_completed
    \/ return_completed
    \/ handler_update
    \/ \E c \in 1..MaxCancels :
         cancel_slicing_job(c) \/ cancel_select(c) \/ cancel_update(c)

SpecRequest == InitRequest /\ [][NextRequest]_vars

-----------------------------------------------------------------------------
(* Claims about the job status and the progress store *)

\* C25: under every interleaving of a slice request with cancel requests the
\* stored status changes only from processing to completed or from
\* processing to failed (after the row is created as processing).
C25_StatusOnlyLeavesProcessing ==
    [][ scene'.status # scene.status =>
          \/ scene.status = "none" /\ scene'.status = "processing"
          \/ scene.status = "processing"
             /\ scene'.status \in {"completed", "failed"} ]_vars

ReturnedCompleted ==
    scene.request.pc = "ended" /\ scene.request.status_code = 200

\* a request that returned status completed has its job stored as completed
CompletedStays == ReturnedCompleted => scene.status = "completed"

\* a job a cancel recorded as failed is not stored as completed afterwards
CancelledStays == scene.failed_by_cancel => scene.status = "failed"

\* C26: when the slice request has ended, by returning or by an HTTP error,
\* _job_progress holds no entry for its job id; every stored progress value
\* is within 0..100.
C26_NoProgressAfterRequest ==
    /\ scene.request.pc = "ended" => scene.progress = NoProgress
    /\ scene.progress # NoProgress => scene.progress \in 0..100

\* the same for the requests that got as far as creating the job row
ProgressClearedAfterJob ==
    /\ scene.request.pc = "ended" /\ scene.status # "none"
          => scene.progress = NoProgress
    /\ scene.progress # NoProgress => scene.progress \in 0..100

-----------------------------------------------------------------------------
(* Claims about the capabilities of the placement frame *)

\* C27: in every frame _derive_layout_placement_frame returns,
\* capabilities.object_transform_edit is true exactly when confidence is
\* 'exact', and capabilities.prime_tower_edit is true; no frame offers
\* object move/rotate editing with approximate confidence.
C27_EditOnlyWhenExact ==
    Derived =>
        /\ scene.frame.confidence \in {"exact", "approximate"}
        /\ scene.frame.object_transform_edit = (scene.frame.confidence = "exact")
        /\ scene.frame.prime_tower_edit

\* a multi-plate file, several items in scope: the plate-translation mapping
\* with approximate confidence and no object editing
C27_Witness ==
    /\ Derived
    /\ call.is_multi_plate
    /\ Len(call.items) = 2
    /\ scene.frame.mapping = "bambu_plate_translation_offset"
    /\ scene.frame.confidence = "approximate"
    /\ ~scene.frame.object_transform_edit

-----------------------------------------------------------------------------
(* get_upload_layout: the placement frame is derived for the items that
   list_build_items_3mf lists from the uploaded file (lines 2803-2818).
   Requests may follow one another; invoked collects the mappings returned. *)

PackedPlates ==
    << [objectid |-> "1", transform |-> Shift(0, 0), printable |-> "1",
        local_bounds |-> LocalBox],
       [objectid |-> "3", transform |-> Shift(MM(120), MM(120)), printable |-> "0",
        local_bounds |-> LocalBox] >>

NearPlates ==
    << [objectid |-> "1", transform |-> Shift(0, 0), printable |-> "1",
        local_bounds |-> LocalBox],
       [objectid |-> "4", transform |-> Shift(MM(40), 0), printable |-> "1",
        local_bounds |-> NoBounds] >>

\* a single-plate file, a file packed on a 120 mm grid (with and without
\* model_settings.config), and a file whose plates lie 40 mm apart
Uploads ==
    { FrameArchive(SubSeq(PackedPlates, 1, 1), FALSE, TRUE),
      FrameArchive(PackedPlates, FALSE, FALSE),
      FrameArchive(PackedPlates, TRUE, FALSE),
      FrameArchive(NearPlates, FALSE, FALSE) }

Mappings ==
    { "direct", "bambu_plate_translation_offset", "bambu_packed_grid_fold",
      "centered_preview_offset" }

\* The requests that get as far as deriving the frame, and for each the
\* items listed and the frame derived (lines 2803-2818).
LayoutRequests ==
    { req \in Uploads \X (0..2) \X BOOLEAN \X ValidationBounds :
        ~ListRaises(req[1], req[2]) }

_compute_layout(req) ==
    LET items == list_build_items_3mf(req[1], req[2])
    IN  [request |-> req,
         items |-> items,
         placement_frame |->
             _derive_layout_placement_frame(items, req[1], req[3], req[2],
                                            FrameBed, FrameBed, req[4])]

\* every request with what it computes
Layouts == { _compute_layout(req) : req \in LayoutRequests }

get_upload_layout(zf, plate_id, is_multi, validation_bounds) ==
    \E computed \in Layouts :
        /\ computed.request = <<zf, plate_id, is_multi, validation_bounds>>
        /\ scene' = [parsed |-> TRUE] @@ computed.placement_frame
        /\ invoked' = invoked \cup {computed.placement_frame.frame.mapping}
        /\ call' = [op |-> "_derive_layout_placement_frame",
                    items |-> computed.items,
                    is_multi_plate |-> is_multi, plate_id |-> plate_id,
                    bed_x |-> FrameBed, bed_y |-> FrameBed,
                    validation_bounds |-> validation_bounds]
        /\ src_3mf' = zf
        /\ outcome' = "ok"
        /\ UNCHANGED <<output_3mf, profiles, workdir>>

InitLayout ==
    /\ src_3mf = <<>>
    /\ output_3mf = <<>>
    /\ call = [op |-> "none"]
    /\ outcome = "none"
    /\ profiles = NoProfiles
    /\ invoked = {}
    /\ scene = NoScene
    /\ workdir = {}

NextLayout ==
    \E zf \in Uploads, plate_id \in 0..2, is_multi \in BOOLEAN,
       vb \in ValidationBounds :
        get_upload_layout(zf, plate_id, is_multi, vb)

\* a request whose frame has the mapping m
Returns(m) ==
    NextLayout /\ invoked' = invoked \cup {m}

\* Requests keep arriving: a kind of request that stays possible is made.
SpecLayout ==
    /\ InitLayout
    /\ [][NextLayout]_vars
    /\ \A m \in Mappings : WF_vars(Returns(m) /\ m \notin invoked)

-----------------------------------------------------------------------------
(* Claims about the reachable placement strategies *)

FoldNeverForListedItems ==
    /\ "bambu_packed_grid_fold" \notin invoked
    /\ (Derived /\ call.is_multi_plate /\ call.items # <<>>
        /\ GridStepsUsable(
              _infer_bambu_packed_grid_steps(src_3mf, call.bed_x, call.bed_y)[1],
              _infer_bambu_packed_grid_steps(src_3mf, call.bed_x, call.bed_y)[2]))
          => /\ EveryItemResolvable
             /\ scene.frame.mapping = "bambu_plate_translation_offset"

-----------------------------------------------------------------------------
(* apply_object_transforms_to_3mf on files whose model_settings.config lists
   the assemble_items in an order of its own: every assemble_item carries an
   object_id, the build items have distinct object ids. *)

OrderedItems ==
    << [objectid |-> "1", transform |-> T50, printable |-> "1"],
       [objectid |-> "2", transform |-> TFine, printable |-> "1"] >>

AssembleTag(object_id) ==
    [object_id |-> object_id,
     transform |-> IF object_id = "1" THEN TAsm ELSE Shift(MM(60), MM(70))]

\* build order, the reverse order, and one object only
AssembleOrders ==
    { << AssembleTag("1"), AssembleTag("2") >>,
      << AssembleTag("2"), AssembleTag("1") >>,
      << AssembleTag("2") >> }

AssembleArchives ==
    { << Entry("[Content_Types].xml", "deflated", Blob(1)),
         Entry(MODEL_NAME, "deflated", ModelBody("source", OrderedItems)),
         Entry(MODEL_SETTINGS_NAME, "deflated", SettingsBody("source", assemble)) >> :
        assemble \in AssembleOrders }

InitAssemble ==
    /\ src_3mf \in AssembleArchives
    /\ output_3mf = <<>>
    /\ call = [op |-> "none"]
    /\ outcome = "none"
    /\ profiles = NoProfiles
    /\ invoked = {}
    /\ scene = NoScene
    /\ workdir = {}

NextAssemble ==
    \E object_transforms \in TransformRequests :
        apply_object_transforms_to_3mf(object_transforms)

SpecAssemble == InitAssemble /\ [][NextAssemble]_vars

-----------------------------------------------------------------------------
(* Claims about the assemble_items after apply_object_transforms_to_3mf *)

Patched == Applied /\ outcome = "ok"

\* the build items named in the request that carry the object id
NamedFor(object_id) ==
    { a \in applied_of(BuildItems(src_3mf), normalized_of(call.object_transforms)) :
        BuildItems(src_3mf)[a].objectid = object_id }

\* C29: every assemble_item carrying an object_id and the transformed build
\* items having distinct object ids, whatever the order of the
\* assemble_items: an assemble_item is changed only if its object_id is
\* that of a build item named in the request, it then gets exactly that
\* build item's delta once, and the other assemble_items are unchanged.
C29_AssembleDeltaByObjectId ==
    Patched =>
        \A j \in DOMAIN AssembleItems(src_3mf) :
            LET tag == AssembleItems(src_3mf)[j]
                out == AssembleItems(output_3mf)[j]
                named == NamedFor(tag.object_id)
            IN  IF named = {} THEN out = tag
                ELSE \A a \in named :
                        out = [tag EXCEPT !.transform =
                                 NewTransform(tag.transform,
                                     normalized_of(call.object_transforms)[a])]

\* the same when the assemble_items are in build order
InBuildOrder ==
    \A j \in DOMAIN AssembleItems(src_3mf) :
        /\ j \in DOMAIN BuildItems(src_3mf)
        /\ AssembleItems(src_3mf)[j].object_id = BuildItems(src_3mf)[j].objectid

AssembleDeltaInBuildOrder ==
    InBuildOrder => C29_AssembleDeltaByObjectId


=============================================================================
